---- MODULE Spec2Model ----
(***************************************************************************)
(* Model of the hierarchy reconstruction and code resolution core of       *)
(* IFRC-NDRRMC-convert:                                                    *)
(*   transformations.py  extract_location_hierarchy,                       *)
(*                       transform_affected_population                     *)
(*   pcodes.py           add_pcodes                                        *)
(*   dromic_extractor.py detect_admin_levels                               *)
(* Every function is a pure function of a table; a specification draws    *)
(* the table from a bounded set in its initial state and one action per    *)
(* function applies it.                                                    *)
(***************************************************************************)
EXTENDS Integers, Sequences, FiniteSets, TLC

VARIABLES
    pc,      \* "start" before a function has run, "done" after
    op,      \* the function that produced the result ("none" before)
    rows,    \* the input table of extract_location_hierarchy (Location, Sub-total, Affected_Families, Affected_Persons)
    out,     \* its result: [status, table]
    prows,   \* the input table of add_pcodes (Region, Province, Municipality, Barangay)
    pout,    \* its result: [status, table]
    table,   \* the input table of detect_admin_levels (first column, numeric columns)
    levels,  \* its result: [status, first_numcol, table]
    origin,  \* the input of get_clean_names: a string, as its sequence of characters
    clean,   \* its result
    hrows,   \* the input table of transform_damaged_houses (Location, Totally_Damaged, Grand_Total_Damaged)
    hout,    \* its result: [status, table]
    dout,    \* the result of add_dromic_pcodes on the labeled table: [status, table]
    lrows,   \* the input table of transform_communication_lines and transform_damage_to_agriculture
    lout,    \* its result: [status, table]
    huc_file \* whether data/hucs_and_pcodes.csv is found in the working directory

vars == <<pc, op, rows, out, prows, pout, table, levels, origin, clean, hrows, hout, dout,
          lrows, lout, huc_file>>

\* A missing cell.  A cell the PDF reader leaves empty (tabula.read_pdf,
\* pd.concat) is the float NaN; a cell of a column the code creates with
\* "= None" and never writes is None.  pd.isna, pd.notna and ffill treat the
\* two alike; they differ in how they print (str and str_none below).
Null == "<null>"

notna(x) == x # Null
isna(x) == x = Null

\* A missing cell of a numeric column (what pd.to_numeric(errors='coerce')
\* leaves for a blank); the numbers of the tables are positive.
NaN == -1

Max(S) == CHOOSE x \in S : \A y \in S : y <= x
Min(S) == CHOOSE x \in S : \A y \in S : x <= y

\* The elements of sequence s at the positions in keepAt, in order (df[mask]).
RECURSIVE FilterSeq(_, _)
FilterSeq(s, keepAt) ==
    IF s = << >> THEN << >>
    ELSE LET n == Len(s)
             front == FilterSeq(SubSeq(s, 1, n - 1), keepAt)
         IN IF n \in keepAt THEN Append(front, s[n]) ELSE front

\* Series.ffill(): every missing cell takes the last non-missing cell above it.
ffill(col) ==
    [i \in 1..Len(col) |->
        LET above == {j \in 1..i : notna(col[j])}
        IN IF above = {} THEN Null ELSE col[Max(above)]]

\* df.groupby(keys)[col].ffill(): the fill runs inside each group of equal
\* keys (groups are formed by value, not by contiguity) and the rows of the
\* null group (a key is missing, dropna=True) get missing values.
groupby_ffill(keys, col) ==
    [i \in 1..Len(col) |->
        IF \E k \in 1..Len(keys[i]) : isna(keys[i][k]) THEN Null
        ELSE LET above == {j \in 1..i : keys[j] = keys[i] /\ notna(col[j])}
             IN IF above = {} THEN Null ELSE col[Max(above)]]

-----------------------------------------------------------------------------
(* Strings.  Location texts come from a fixed vocabulary; the string        *)
(* methods the code calls are tabulated on it.                              *)

LocationTexts ==
    {"REGION IV-A", "NCR", "CAVITE", "Cavite", "Lucena City", "LUCENA CITY",
     "Tagaytay City", " ", "None", "NONE", "GRAND TOTAL"}

\* str(x) and astype(str) on a cell of a column of the input table: the
\* missing cell is the float NaN and prints as 'nan'.
str(x) == IF x = Null THEN "nan" ELSE x

\* str(x) and astype(str) on a cell of a column the code created with
\* "= None" (Region, Province, Municipality, Barangay): the missing cell is
\* None and prints as 'None'.
str_none(x) == IF x = Null THEN "None" ELSE x

\* str.strip()
strip(s) == IF s = " " THEN "" ELSE IF s = " Down " THEN "Down" ELSE s

\* str.upper()
upper(s) ==
    CASE s = "Cavite" -> "CAVITE"
      [] s = "Lucena City" -> "LUCENA CITY"
      [] s = "Tagaytay City" -> "TAGAYTAY CITY"
      [] s = "Brgy. Sungay" -> "BRGY. SUNGAY"
      [] s = "Brgy. Iruhin" -> "BRGY. IRUHIN"
      [] s = "None" -> "NONE"
      [] s = "nan" -> "NAN"
      [] s = "No breakdown" -> "NO BREAKDOWN"
      [] OTHER -> s

\* str.isupper(): some cased character and no lower-case one.
isupper(s) == s \in {"REGION IV-A", "NCR", "CAVITE", "GRAND TOTAL",
                     "LUCENA CITY", "TAGAYTAY CITY", "NONE", "NAN",
                     "BRGY. SUNGAY", "BRGY. IRUHIN"}

\* str.contains('GRAND TOTAL', case=False, na=False)
contains_grand_total(x) == x # Null /\ upper(x) = "GRAND TOTAL"

-----------------------------------------------------------------------------
(* config.py: the region identifiers, the provinces of each region and the *)
(* highly urbanized cities with their regions.                              *)

REGION_IDENTIFIERS == {"REGION IV-A", "NCR"}

REGION_PROVINCE_MAP ==
    [r \in {"REGION IV-A"} |-> <<"CAVITE", "LUCENA CITY">>]

HUCS == [h \in {"LUCENA CITY"} |-> "REGION IV-A"]

in_list(x, list) == \E k \in 1..Len(list) : list[k] = x

\* location in HUCS and HUCS.get(location) == region
is_huc_of(location, region) ==
    location \in DOMAIN HUCS /\ HUCS[location] = region

-----------------------------------------------------------------------------
(* transformations.py: extract_location_hierarchy.  A working row carries  *)
(* the input columns, the columns the function adds, and idx, the position *)
(* of the row in the input (not a column of the data frame).               *)

new_row(i, r) ==
    [idx |-> i, Location |-> r.Location, Sub |-> r.Sub, AF |-> r.AF, AP |-> r.AP,
     Region |-> Null, Province |-> Null, Is_Province_Header |-> FALSE,
     Is_HUC |-> FALSE, Municipality |-> Null, Barangay |-> Null, Level |-> Null]

column(df, c) == [i \in 1..Len(df) |-> df[i][c]]

\* df[location_col].str of STEP 0 (and of Step 2.5 of
\* transform_damaged_houses): a column the reader filled with no text at all
\* is a float64 column of NaN, which has no .str accessor, and the line
\* raises AttributeError.  col is the Location column of the frame as it was
\* read: a selection of its rows keeps the dtype of the column.
str_accessor_raises(col) ==
    Len(col) > 0 /\ \A i \in 1..Len(col) : isna(col[i])

\* STEP 0: remove GRAND TOTAL rows (on a column that has the accessor).
step0_remove_grand_total(df) ==
    FilterSeq(df, {i \in 1..Len(df) : ~contains_grand_total(df[i].Location)})

\* STEP 3: a row whose text is a region identifier is its own Region.
step3_identify_region(df) ==
    [i \in 1..Len(df) |->
        [df[i] EXCEPT !.Region =
            IF upper(strip(str(df[i].Location))) \in REGION_IDENTIFIERS
            THEN df[i].Location ELSE Null]]

\* STEP 4: forward-fill Region.
step4_ffill_region(df) ==
    LET filled == ffill(column(df, "Region"))
    IN [i \in 1..Len(df) |-> [df[i] EXCEPT !.Region = filled[i]]]

\* STEP 5: HUC rows and upper-case rows of the region's province list.
is_province_row(r) ==
    /\ notna(r.Region)
    /\ LET region == upper(strip(str_none(r.Region)))
           location == upper(strip(str(r.Location)))
           original_location == strip(str(r.Location))
       IN \/ is_huc_of(location, region)
          \/ /\ region \in DOMAIN REGION_PROVINCE_MAP
             /\ in_list(location, REGION_PROVINCE_MAP[region])
             /\ isupper(original_location)

step5_identify_province(df) ==
    [i \in 1..Len(df) |->
        IF is_province_row(df[i])
        THEN [df[i] EXCEPT !.Province = df[i].Location, !.Is_Province_Header = TRUE]
        ELSE df[i]]

\* STEP 5d, inner loop: the scan of the rows below a candidate row.  TRUE
\* iff the running sum of Affected_Persons hits province_total exactly.
RECURSIVE sum_matches(_, _, _, _, _, _)
sum_matches(df, below_idx, cumsum, province_total, region, province_list) ==
    IF below_idx > Len(df) THEN FALSE
    ELSE IF df[below_idx].Region # region THEN FALSE
    ELSE LET below_location == strip(str(df[below_idx].Location))
             below_affected == IF df[below_idx].AP = NaN THEN 0 ELSE df[below_idx].AP
         IN IF below_location \in {"", "nan", "None"}
            THEN sum_matches(df, below_idx + 1, cumsum, province_total, region, province_list)
            ELSE IF below_affected > 0
            THEN IF in_list(upper(below_location), province_list)
                    /\ 2 * below_affected >= province_total
                 THEN FALSE
                 ELSE IF cumsum + below_affected = province_total THEN TRUE
                 ELSE IF cumsum + below_affected > province_total THEN FALSE
                 ELSE sum_matches(df, below_idx + 1, cumsum + below_affected,
                                  province_total, region, province_list)
            ELSE sum_matches(df, below_idx + 1, cumsum, province_total, region, province_list)

is_sentence_case_never(df, test_idx) == FALSE

\* STEP 5d: a row of the region's province list that is not yet a Province
\* and whose Affected_Persons equals the running sum of the rows below it.
is_sentence_case_province(df, test_idx) ==
    LET test_row == df[test_idx]
    IN /\ notna(test_row.Region)
       /\ upper(strip(str_none(test_row.Region))) \in DOMAIN REGION_PROVINCE_MAP
       /\ LET province_list == REGION_PROVINCE_MAP[upper(strip(str_none(test_row.Region)))]
          IN /\ notna(test_row.Location)
             /\ \E k \in 1..Len(province_list) :
                    upper(test_row.Location) = upper(province_list[k])
             /\ isna(test_row.Province)
             /\ test_row.AP # NaN
             /\ test_row.AP > 0
             /\ sum_matches(df, test_idx + 1, 0, test_row.AP, test_row.Region,
                            province_list)

step5d_sentence_case_provinces(df) ==
    [i \in 1..Len(df) |->
        IF is_sentence_case_province(df, i)
        THEN [df[i] EXCEPT !.Province = df[i].Location, !.Is_Province_Header = TRUE]
        ELSE df[i]]

\* The Is_HUC lambda of STEP 5a and STEP 11.
is_huc_check(r) ==
    /\ notna(r.Province)
    /\ notna(r.Region)
    /\ is_huc_of(upper(strip(r.Province)), upper(strip(r.Region)))

step5a_mark_only(df) ==
    [i \in 1..Len(df) |-> [df[i] EXCEPT !.Is_HUC = is_huc_check(df[i])]]

\* STEP 5a/5b: mark the HUC rows and take their Province out of the column
\* (huc_backup is the rows with Is_HUC set; their Province is their Location).
step5a_mark_huc(df) ==
    [i \in 1..Len(df) |->
        IF is_huc_check(df[i])
        THEN [df[i] EXCEPT !.Is_HUC = TRUE, !.Province = Null]
        ELSE [df[i] EXCEPT !.Is_HUC = FALSE]]

huc_backup(df) ==
    {<<df[i].Region, df[i].Location, df[i].Province>> :
        i \in {j \in 1..Len(df) : is_huc_check(df[j])}}

\* STEP 6: remove Region header rows.
step6_remove_region_headers(df) ==
    FilterSeq(df, {i \in 1..Len(df) :
        ~(/\ notna(df[i].Region) /\ notna(df[i].Location)
          /\ df[i].Region = df[i].Location
          /\ isna(df[i].Province)
          /\ ~df[i].Is_HUC)})

\* STEP 7: forward-fill Province within each Region.
step7_ffill_province(df) ==
    LET filled == groupby_ffill([i \in 1..Len(df) |-> <<df[i].Region>>],
                                column(df, "Province"))
    IN [i \in 1..Len(df) |-> [df[i] EXCEPT !.Province = filled[i]]]

step7a_no_restore(df, backup) == df

\* STEP 7a: restore the HUC provinces by Region + Location.
step7a_restore_huc(df, backup) ==
    [i \in 1..Len(df) |->
        LET hits == {b \in backup : notna(df[i].Region) /\ notna(df[i].Location)
                                   /\ df[i].Region = b[1] /\ df[i].Location = b[2]}
        IN IF hits = {} THEN df[i]
           ELSE [df[i] EXCEPT !.Province = (CHOOSE b \in hits : TRUE)[3]]]

\* pd.notna(subtotal) and str(subtotal).strip() != '': the Sub-total column is
\* numeric, so the text of a present value is never blank.
has_subtotal(r) == r.Sub # NaN

is_huc_location(r) ==
    is_huc_of(IF notna(r.Location) THEN upper(strip(str(r.Location))) ELSE "",
              IF notna(r.Region) THEN upper(strip(str_none(r.Region))) ELSE "")

\* STEP 8: HUC rows and rows with a Sub-total are their own Municipality.
step8_identify_municipality(df) ==
    [i \in 1..Len(df) |->
        [df[i] EXCEPT !.Municipality =
            IF is_huc_location(df[i]) \/ has_subtotal(df[i])
            THEN df[i].Location ELSE Null]]

step9_no_fill(df) == df

\* STEP 9: forward-fill Municipality within each (Region, Province).
step9_ffill_municipality(df) ==
    LET filled == groupby_ffill([i \in 1..Len(df) |-> <<df[i].Region, df[i].Province>>],
                                column(df, "Municipality"))
    IN [i \in 1..Len(df) |-> [df[i] EXCEPT !.Municipality = filled[i]]]

\* STEP 10: every other row is a Barangay of the Municipality filled in.
step10_identify_barangay(df) ==
    [i \in 1..Len(df) |->
        IF is_huc_location(df[i]) \/ has_subtotal(df[i])
        THEN [df[i] EXCEPT !.Municipality = df[i].Location, !.Barangay = Null]
        ELSE [df[i] EXCEPT !.Barangay = df[i].Location]]

\* STEP 11: remove Province header rows, keeping the HUC rows.
step11_remove_province_headers(df) ==
    FilterSeq(df, {i \in 1..Len(df) :
        ~(df[i].Is_Province_Header /\ ~is_huc_check(df[i]))})

\* STEP 12: remove page break "None" rows.
step12_remove_none(df) ==
    FilterSeq(df, {i \in 1..Len(df) : df[i].Location # "None"})

\* STEP 12a: remove blank Location rows.
step12a_remove_blank(df) ==
    FilterSeq(df, {i \in 1..Len(df) :
        notna(df[i].Location) /\ strip(str(df[i].Location)) # ""})

\* The columns of the frame at STEP 15 (Is_HUC is dropped at STEP 13).
columns_of(r) ==
    <<r.Region, r.Province, r.Municipality, r.Barangay, r.Location, r.Sub, r.AF, r.AP,
      r.Is_Province_Header>>

step15_keep_all(df) == df

\* STEP 15: remove exact duplicate rows, keeping the first.
step15_drop_duplicates(df) ==
    FilterSeq(df, {i \in 1..Len(df) :
        \A j \in 1..(i - 1) : columns_of(df[j]) # columns_of(df[i])})

\* STEP 16: the Level column.
level_of(r) ==
    LET barangay_filled == notna(r.Barangay) /\ strip(str_none(r.Barangay)) # ""
        location_str == upper(strip(str(r.Location)))
        has_location == notna(r.Location) /\ location_str # "" /\ location_str # "NONE"
    IN IF notna(r.Municipality) /\ ~barangay_filled /\ has_location THEN "Municipality"
       ELSE IF barangay_filled THEN "Barangay"
       ELSE Null

step16_level(df) ==
    [i \in 1..Len(df) |-> [df[i] EXCEPT !.Level = level_of(df[i])]]

\* The frame of extract_location_hierarchy on a non-empty frame.
hierarchy_frame(df0) ==
    LET df5 == step5d_sentence_case_provinces(step5_identify_province(
                   step4_ffill_region(step3_identify_region(df0))))
        backup == huc_backup(df5)
        df7 == step7a_restore_huc(step7_ffill_province(
                   step6_remove_region_headers(step5a_mark_huc(df5))), backup)
        df10 == step10_identify_barangay(step9_ffill_municipality(
                   step8_identify_municipality(df7)))
    IN step16_level(step15_drop_duplicates(step12a_remove_blank(
           step12_remove_none(step11_remove_province_headers(df10)))))

\* The results extract_location_hierarchy can produce for the frame t, a
\* selection of the rows of a frame whose Location column is whole.  STEP 0
\* raises AttributeError when that column holds no text.  On a frame left
\* empty by STEP 0, df.apply(..., axis=1) at STEP 5a returns a frame, not a
\* column, and whether the assignment of it raises depends on the pandas
\* version: both outcomes are kept.
hierarchy_results(t, whole) ==
    IF str_accessor_raises(whole)
    THEN {[status |-> "error", table |-> << >>]}
    ELSE LET df0 == step0_remove_grand_total([i \in 1..Len(t) |-> new_row(i, t[i])])
         IN IF df0 = << >>
            THEN {[status |-> "error", table |-> << >>],
                  [status |-> "ok", table |-> << >>]}
            ELSE {[status |-> "ok", table |-> hierarchy_frame(df0)]}

\* extract_location_hierarchy called with a frame as it was read.
extract_location_hierarchy(t) == hierarchy_results(t, column(t, "Location"))

-----------------------------------------------------------------------------
(* transformations.py: transform_affected_population.                      *)

HeaderRows == 3

\* Step 3a: keep the rows with a Sub-total, and the HUC rows.
ap_step3a_keep_subtotal_or_huc(df) ==
    FilterSeq(df, {i \in 1..Len(df) :
        \/ df[i].Sub # NaN
        \/ upper(str_none(df[i].Province)) \in DOMAIN HUCS
        \/ upper(str(df[i].Location)) \in DOMAIN HUCS})

\* Step 3b: the HUC rows are split off and de-duplicated on (Region,
\* upper-cased Location); pd.concat(..., ignore_index=True) then numbers the
\* rows anew in the order [non-HUC rows, HUC rows], so the sort_index that
\* follows leaves that order as it is.
ap_step3b_dedup_huc(df) ==
    LET huc_mask == {i \in 1..Len(df) : upper(df[i].Location) \in DOMAIN HUCS}
        non_huc_rows == FilterSeq(df, (1..Len(df)) \ huc_mask)
        huc_rows == FilterSeq(df, {i \in huc_mask :
                        \A j \in huc_mask :
                            j < i => <<df[j].Region, upper(df[j].Location)>>
                                     # <<df[i].Region, upper(df[i].Location)>>})
    IN non_huc_rows \o huc_rows

\* Step 4: remove the rows whose numeric columns are all missing.  Of the 18
\* numeric columns a row carries Sub-total, Affected_Families and
\* Affected_Persons; the 15 others are missing in every row of the tables.
ap_step4_dropna(df) ==
    FilterSeq(df, {i \in 1..Len(df) :
        ~(df[i].Sub = NaN /\ df[i].AF = NaN /\ df[i].AP = NaN)})

\* The results of transform_affected_population for the raw table (the
\* first HeaderRows rows are the table's title rows; the frame given to
\* extract_location_hierarchy is raw.iloc[3:], with the dtypes of raw).
transform_affected_population(raw) ==
    LET body == SubSeq(raw, HeaderRows + 1, Len(raw))
    IN {IF res.status = "error" THEN res
        ELSE [status |-> "ok",
              table |-> ap_step4_dropna(ap_step3b_dedup_huc(
                            ap_step3a_keep_subtotal_or_huc(res.table)))] :
        res \in hierarchy_results(body, column(raw, "Location"))}

-----------------------------------------------------------------------------
(* The hierarchy specification: a table of at most MaxRows rows, then one  *)
(* of the two functions.                                                   *)

MaxRows == 3

SubValues == {NaN, 1}
AFValues == {NaN, 1}
APValues == {NaN, 1, 2}

\* Sub-total is present with or without Affected_Persons; a row without
\* Sub-total has Affected_Persons missing or 1, and Affected_Families
\* present or missing.
RowValues ==
    {r \in [Location : LocationTexts \cup {Null}, Sub : SubValues, AF : AFValues,
            AP : APValues] :
        /\ r.Sub = NaN => r.AP \in {NaN, 1}
        /\ r.AF # NaN => r.Sub = NaN}

\* The tables of the specification keep a row after STEP 0: what the code does
\* with a frame that STEP 0 empties is not fixed by the code alone.
Tables(max) ==
    {t \in UNION {[1..n -> RowValues] : n \in 1..max} :
        \E i \in 1..Len(t) : ~contains_grand_total(t[i].Location)}

TitleRow == [Location |-> "None", Sub |-> NaN, AF |-> NaN, AP |-> NaN]
TitleRows == [i \in 1..HeaderRows |-> TitleRow]

NoResult == [status |-> "none", table |-> << >>]

Init ==
    /\ pc = "start"
    /\ op = "none"
    /\ dout = NoResult
    /\ lrows = << >>
    /\ lout = NoResult
    /\ huc_file = TRUE
    /\ origin = << >>
    /\ clean = << >>
    /\ hrows = << >>
    /\ hout = NoResult
    /\ rows \in Tables(MaxRows)
    /\ out = NoResult
    /\ prows = << >>
    /\ pout = NoResult
    /\ table = << >>
    /\ levels = NoResult

ExtractLocationHierarchy ==
    /\ pc = "start"
    /\ out' \in extract_location_hierarchy(rows)
    /\ op' = "extract_location_hierarchy"
    /\ pc' = "done"
    /\ UNCHANGED <<rows, prows, pout, table, levels, origin, clean, hrows, hout, dout, lrows, lout, huc_file>>

TransformAffectedPopulation ==
    /\ pc = "start"
    /\ out' \in transform_affected_population(TitleRows \o rows)
    /\ op' = "transform_affected_population"
    /\ pc' = "done"
    /\ UNCHANGED <<rows, prows, pout, table, levels, origin, clean, hrows, hout, dout, lrows, lout, huc_file>>

Next == ExtractLocationHierarchy \/ TransformAffectedPopulation

Spec == Init /\ [][Next]_vars

-----------------------------------------------------------------------------
(* The scenario specification: extract_location_hierarchy on the tables    *)
(* made of the rows of the Tagaytay report (a Region header, an upper-case *)
(* Province header, a Municipality with Sub-total 120 and its two          *)
(* barangays with Affected_Persons 70 and 50), in any order and number.    *)

MaxScenarioRows == 5

ScenarioInput ==
    <<[Location |-> "REGION IV-A", Sub |-> NaN, AF |-> NaN, AP |-> NaN],
      [Location |-> "CAVITE", Sub |-> NaN, AF |-> NaN, AP |-> NaN],
      [Location |-> "Tagaytay City", Sub |-> 120, AF |-> NaN, AP |-> NaN],
      [Location |-> "Brgy. Sungay", Sub |-> NaN, AF |-> NaN, AP |-> 70],
      [Location |-> "Brgy. Iruhin", Sub |-> NaN, AF |-> NaN, AP |-> 50]>>

ScenarioRows == {ScenarioInput[i] : i \in 1..Len(ScenarioInput)}

ScenarioTables == UNION {[1..n -> ScenarioRows] : n \in 1..MaxScenarioRows}

InitScenario ==
    /\ pc = "start"
    /\ op = "none"
    /\ dout = NoResult
    /\ lrows = << >>
    /\ lout = NoResult
    /\ huc_file = TRUE
    /\ origin = << >>
    /\ clean = << >>
    /\ hrows = << >>
    /\ hout = NoResult
    /\ rows \in ScenarioTables
    /\ out = NoResult
    /\ prows = << >>
    /\ pout = NoResult
    /\ table = << >>
    /\ levels = NoResult

NextScenario == ExtractLocationHierarchy

SpecScenario == InitScenario /\ [][NextScenario]_vars

-----------------------------------------------------------------------------
(* The fill specification: extract_location_hierarchy on longer tables of  *)
(* report rows: Region headers, an upper-case Province header, a           *)
(* sentence-case Province row with Affected_Persons 2, a HUC, a            *)
(* Municipality, a barangay and a page-break row.                          *)

MaxFillRows == 5

FillRows ==
    {[Location |-> "REGION IV-A", Sub |-> NaN, AF |-> NaN, AP |-> NaN],
     [Location |-> "NCR", Sub |-> NaN, AF |-> NaN, AP |-> NaN],
     [Location |-> "CAVITE", Sub |-> NaN, AF |-> NaN, AP |-> NaN],
     [Location |-> "Cavite", Sub |-> NaN, AF |-> NaN, AP |-> 2],
     [Location |-> "Lucena City", Sub |-> 1, AF |-> NaN, AP |-> 1],
     [Location |-> "Tagaytay City", Sub |-> 1, AF |-> NaN, AP |-> 2],
     [Location |-> "Brgy. Sungay", Sub |-> NaN, AF |-> NaN, AP |-> 1],
     [Location |-> "None", Sub |-> NaN, AF |-> NaN, AP |-> NaN]}

FillTables(max) == UNION {[1..n -> FillRows] : n \in 1..max}

InitFill ==
    /\ pc = "start"
    /\ op = "none"
    /\ dout = NoResult
    /\ lrows = << >>
    /\ lout = NoResult
    /\ huc_file = TRUE
    /\ origin = << >>
    /\ clean = << >>
    /\ hrows = << >>
    /\ hout = NoResult
    /\ rows \in FillTables(MaxFillRows)
    /\ out = NoResult
    /\ prows = << >>
    /\ pout = NoResult
    /\ table = << >>
    /\ levels = NoResult

NextFill == ExtractLocationHierarchy

SpecFill == InitFill /\ [][NextFill]_vars

-----------------------------------------------------------------------------
(* Claims about extract_location_hierarchy and                             *)
(* transform_affected_population.                                          *)

ExtractDone == pc = "done" /\ op = "extract_location_hierarchy" /\ out.status = "ok"

\* The owning Municipality of row r is a HUC of the row's Region.
owned_by_huc(r) ==
    /\ notna(r.Municipality)
    /\ notna(r.Region)
    /\ is_huc_of(upper(strip(r.Municipality)), upper(strip(r.Region)))

\* C1: every row returned by extract_location_hierarchy with Level
\* 'Barangay' has Municipality, Province and Region all non-null, unless its
\* owning Municipality is a HUC row.
C1_BarangayHasAllAncestors ==
    ExtractDone =>
        \A i \in 1..Len(out.table) :
            LET r == out.table[i]
            IN (r.Level = "Barangay" /\ ~owned_by_huc(r)) =>
                   /\ notna(r.Municipality)
                   /\ notna(r.Province)
                   /\ notna(r.Region)

\* No row of the input matches a known Region identifier.
no_region_row(t) ==
    \A i \in 1..Len(t) : upper(strip(str(t[i].Location))) \notin REGION_IDENTIFIERS

\* C8: when no input row matches a known Region identifier,
\* extract_location_hierarchy reports a failure instead of returning a
\* labeled table.
C8_NoRegionIsHardFailure ==
    (pc = "done" /\ op = "extract_location_hierarchy" /\ no_region_row(rows)) =>
        out.status = "error"

\* C11: every row returned by extract_location_hierarchy has Level
\* 'Barangay' if its Barangay field is populated, otherwise 'Municipality' if
\* its Municipality field is populated and its location text is not blank;
\* no returned row has a null Level.
C11_LevelAssigned ==
    ExtractDone =>
        \A i \in 1..Len(out.table) :
            LET r == out.table[i]
            IN /\ r.Level \in {"Barangay", "Municipality"}
               /\ r.Level = "Barangay" <=> notna(r.Barangay)
               /\ r.Level = "Municipality" =>
                      notna(r.Municipality) /\ strip(str(r.Location)) # ""

\* The hierarchy columns of a returned row.
labels_of(r) ==
    [Location |-> r.Location, Region |-> r.Region, Province |-> r.Province,
     Municipality |-> r.Municipality, Barangay |-> r.Barangay, Level |-> r.Level]

ScenarioDone ==
    pc = "done" /\ op = "extract_location_hierarchy" /\ rows = ScenarioInput

\* C13 as stated: in the Tagaytay scenario every returned row has Region
\* 'Region IV-A', Province 'Cavite' and Municipality 'Tagaytay City', the
\* Tagaytay row has Level 'Municipality' and both Brgy. rows have Level
\* 'Barangay'.
C13_ScenarioAsStated ==
    ScenarioDone =>
        /\ out.status = "ok"
        /\ \A i \in 1..Len(out.table) :
               LET r == out.table[i]
               IN /\ r.Region = "Region IV-A"
                  /\ r.Location # "CAVITE" =>
                         /\ r.Province = "Cavite"
                         /\ r.Municipality = "Tagaytay City"
                  /\ r.Location = "Tagaytay City" => r.Level = "Municipality"
                  /\ r.Location \in {"Brgy. Sungay", "Brgy. Iruhin"} =>
                         r.Level = "Barangay"

\* C13 amended: in the Tagaytay scenario the result is the three data rows
\* (the Region and Province header rows are not returned), each with the
\* header rows' own text 'REGION IV-A' and 'CAVITE' as Region and Province
\* and Municipality 'Tagaytay City'; the Tagaytay row has Level
\* 'Municipality', both Brgy. rows have Level 'Barangay'.
C13_Scenario ==
    ScenarioDone =>
        /\ out.status = "ok"
        /\ [i \in 1..Len(out.table) |-> labels_of(out.table[i])] =
               <<[Location |-> "Tagaytay City", Region |-> "REGION IV-A",
                  Province |-> "CAVITE", Municipality |-> "Tagaytay City",
                  Barangay |-> Null, Level |-> "Municipality"],
                 [Location |-> "Brgy. Sungay", Region |-> "REGION IV-A",
                  Province |-> "CAVITE", Municipality |-> "Tagaytay City",
                  Barangay |-> "Brgy. Sungay", Level |-> "Barangay"],
                 [Location |-> "Brgy. Iruhin", Region |-> "REGION IV-A",
                  Province |-> "CAVITE", Municipality |-> "Tagaytay City",
                  Barangay |-> "Brgy. Iruhin", Level |-> "Barangay"]>>

\* C13 witness: the scenario table has been labeled and three rows returned.
C13_Witness ==
    ScenarioDone /\ out.status = "ok" /\ Len(out.table) = 3

\* The Region in force at row i of the input t: the text of the last Region
\* row at or above it.
current_region(t, i) ==
    LET above == {j \in 1..i : upper(strip(str(t[j].Location))) \in REGION_IDENTIFIERS}
    IN IF above = {} THEN Null ELSE t[Max(above)].Location

\* Row i of the input t is a known HUC of the Region in force.
huc_input_row(t, i) ==
    /\ notna(t[i].Location)
    /\ notna(current_region(t, i))
    /\ is_huc_of(upper(strip(t[i].Location)), upper(strip(current_region(t, i))))

\* C20: every input row whose upper-cased location is a known HUC of the
\* row's current Region is returned, with Province and Municipality both
\* its own location text and Barangay null, also when the plain Province
\* rule matches the row too.
C20_HucOverride ==
    ExtractDone =>
        /\ \A i \in 1..Len(rows) :
               huc_input_row(rows, i) =>
                   \E k \in 1..Len(out.table) :
                       LET r == out.table[k]
                       IN /\ r.Location = rows[i].Location
                          /\ r.Sub = rows[i].Sub
                          /\ r.AP = rows[i].AP
                          /\ r.Region = current_region(rows, i)
        /\ \A k \in 1..Len(out.table) :
               LET r == out.table[k]
               IN huc_input_row(rows, r.idx) =>
                      /\ r.Province = r.Location
                      /\ r.Municipality = r.Location
                      /\ r.Barangay = Null

\* C20 witness: an upper-case HUC row that is also in the province list of
\* its Region, below another Province header, has been returned.
C20_Witness ==
    /\ ExtractDone
    /\ \E k \in 1..Len(out.table) :
           LET r == out.table[k]
           IN /\ huc_input_row(rows, r.idx)
              /\ isupper(r.Location)
              /\ in_list(r.Location, REGION_PROVINCE_MAP[upper(strip(r.Region))])
              /\ r.idx > 1
              /\ rows[r.idx - 1].Location = "CAVITE"
              /\ r.Province = r.Location

\* The frame after STEP 5d for the input t: the Region of every row and the
\* Province header rows (Is_Province_Header), HUC rows among them.
headers_frame(t) ==
    step5d_sentence_case_provinces(step5_identify_province(
        step4_ffill_region(step3_identify_region(
            step0_remove_grand_total([i \in 1..Len(t) |-> new_row(i, t[i])])))))

\* The position in frame df of the row that was row idx of the input.
position_of(df, idx) == CHOOSE p \in 1..Len(df) : df[p].idx = idx

\* Row j of df is a Province header that is no HUC.
plain_header(df, j) == df[j].Is_Province_Header /\ ~is_huc_check(df[j])

\* The Province in force at row p of df: the text of the last plain Province
\* header at or above p among the rows of the Region of row p; null if none.
province_in_force(df, p) ==
    LET heads == {j \in 1..p : plain_header(df, j) /\ df[j].Region = df[p].Region}
    IN IF heads = {} THEN Null ELSE df[Max(heads)].Location

\* Row p of df follows the HUC row h: same Region, no plain Province header
\* from h to p, and p is no HUC row.
follows_huc(df, h, p) ==
    /\ h < p
    /\ is_huc_check(df[h])
    /\ df[p].Region = df[h].Region
    /\ ~is_huc_check(df[p])
    /\ \A j \in h..p : ~(plain_header(df, j) /\ df[j].Region = df[h].Region)

\* C21: a HUC row is a one-row exception in the Province forward-fill: a
\* returned row whose Province is the name of a HUC of its Region is that HUC
\* row itself, and a returned row that follows a HUC row has the Province that
\* was in force before the HUC row (null if the Region had none).
C21_HucOneRowException ==
    ExtractDone =>
        LET df == headers_frame(rows)
        IN \A k \in 1..Len(out.table) :
               LET r == out.table[k]
                   p == position_of(df, r.idx)
               IN /\ is_huc_check(r) =>
                         r.Location = r.Province /\ huc_input_row(rows, r.idx)
                  /\ \A h \in 1..Len(df) :
                         follows_huc(df, h, p) =>
                             r.Province = province_in_force(df, h)

\* C21 witness: a HUC row below a Province header has been returned with its
\* own name as Province, and the row after it with the header's.
C21_Witness ==
    /\ ExtractDone
    /\ LET df == headers_frame(rows)
       IN \E k \in 2..Len(out.table) :
              LET r == out.table[k]
                  huc == out.table[k - 1]
              IN /\ follows_huc(df, position_of(df, huc.idx), position_of(df, r.idx))
                 /\ huc.Province = huc.Location
                 /\ notna(r.Province)
                 /\ r.Province # huc.Province

\* Row r is a Region header: its text is a region identifier.
is_region_head(r) == upper(strip(str(r.Location))) \in REGION_IDENTIFIERS

\* Row r is a Municipality header: a HUC row or a row with a Sub-total.
is_municipality_head(r) == is_huc_location(r) \/ has_subtotal(r)

\* The last position in lo..hi of df whose row is in the set heads of
\* positions; 0 if none.
last_in(heads, lo, hi) == Max({0} \cup {j \in lo..hi : j \in heads})

\* The value a field has at row p of df when header rows set it and it holds
\* up to the next header at that level or a higher one.
filled_region(df, p) ==
    LET j == last_in({i \in 1..Len(df) : is_region_head(df[i])}, 1, p)
    IN IF j = 0 THEN Null ELSE df[j].Location

filled_province(df, p) ==
    LET top == last_in({i \in 1..Len(df) : is_region_head(df[i])}, 1, p)
        j == last_in({i \in 1..Len(df) : plain_header(df, i)}, top + 1, p)
    IN IF j = 0 THEN Null ELSE df[j].Location

filled_municipality(df, p) ==
    LET top == last_in({i \in 1..Len(df) :
                           is_region_head(df[i]) \/ df[i].Is_Province_Header}, 1, p)
        j == last_in({i \in 1..Len(df) : is_municipality_head(df[i])}, Max({top, 1}), p)
    IN IF j = 0 THEN Null ELSE df[j].Location

\* C22: forward-fill in extract_location_hierarchy: on every returned row
\* Region, Province and Municipality are the names set by the last header
\* row of that level above it, and no name is carried past a later header of
\* that level or a higher one: a Province not past a Region header (a repeated
\* Region name included), a Municipality not past a Province, HUC or Region
\* header.
C22_ForwardFill ==
    ExtractDone =>
        LET df == headers_frame(rows)
        IN \A k \in 1..Len(out.table) :
               LET r == out.table[k]
                   p == position_of(df, r.idx)
               IN /\ r.Region = filled_region(df, p)
                  /\ ~is_huc_check(df[p]) => r.Province = filled_province(df, p)
                  /\ r.Municipality = filled_municipality(df, p)

\* Row p of df is a candidate of the sentence-case recovery: STEP 5 has not
\* labeled it Province and its text is, whatever its case, in the province
\* list of its Region.
recovery_candidate(df, p) ==
    /\ notna(df[p].Region)
    /\ notna(df[p].Location)
    /\ ~is_province_row(df[p])
    /\ upper(strip(df[p].Region)) \in DOMAIN REGION_PROVINCE_MAP
    /\ in_list(upper(df[p].Location), REGION_PROVINCE_MAP[upper(strip(df[p].Region))])

\* Affected_Persons of row j, a missing value counting as nothing.
affected(df, j) == IF df[j].AP = NaN THEN 0 ELSE df[j].AP

\* The sum of Affected_Persons over the rows a..b of df that are in the set
\* counted of positions.
RECURSIVE affected_sum(_, _, _, _)
affected_sum(df, counted, a, b) ==
    IF b < a THEN 0
    ELSE affected_sum(df, counted, a, b - 1) + (IF b \in counted THEN affected(df, b) ELSE 0)

\* Rows p+1..m of df are in the Region of row p.
same_region_run(df, p, m) == \A j \in (p + 1)..m : df[j].Region = df[p].Region

\* C23 as stated: a candidate row is promoted to Province if and only if the
\* cumulative sum of Affected_Persons over the contiguous rows below it in
\* its Region equals its own Affected_Persons at some row.
C23_SumMatchAsStated ==
    ExtractDone =>
        LET df == headers_frame(rows)
        IN \A p \in 1..Len(df) :
               recovery_candidate(df, p) =>
                   (df[p].Is_Province_Header <=>
                       \E m \in (p + 1)..Len(df) :
                           /\ same_region_run(df, p, m)
                           /\ affected_sum(df, 1..Len(df), p + 1, m) = df[p].AP)

\* Row j of df has a location text (not blank, not the page-break 'None').
has_text(df, j) == strip(str(df[j].Location)) \notin {"", "nan", "None"}

\* Row j ends the run of candidate p: it names a province of the Region and
\* its Affected_Persons is at least half of the candidate's.
sibling_province(df, p, j) ==
    /\ has_text(df, j)
    /\ in_list(upper(strip(str(df[j].Location))),
               REGION_PROVINCE_MAP[upper(strip(df[p].Region))])
    /\ 2 * affected(df, j) >= df[p].AP

\* C23 amended: a candidate row is promoted to Province if and only if the
\* cumulative sum of Affected_Persons over the rows with a location text in
\* the contiguous run below it (within its Region, ending before the first
\* row that names a province of the Region with at least half the
\* candidate's value) equals its own Affected_Persons at some row; a
\* promoted row is a header and is not returned.
C23_SumMatch ==
    ExtractDone =>
        LET df == headers_frame(rows)
            texts == {j \in 1..Len(df) : has_text(df, j)}
        IN \A p \in 1..Len(df) :
               recovery_candidate(df, p) =>
                   /\ df[p].Is_Province_Header <=>
                          \E m \in (p + 1)..Len(df) :
                              /\ same_region_run(df, p, m)
                              /\ \A j \in (p + 1)..m : ~sibling_province(df, p, j)
                              /\ affected_sum(df, texts, p + 1, m) = df[p].AP
                   /\ df[p].Is_Province_Header =>
                          \A k \in 1..Len(out.table) : out.table[k].idx # df[p].idx

\* C23 witness: a sentence-case row has been promoted on the sum of the two
\* rows below it, and a returned row carries its text as Province.
C23_Witness ==
    /\ ExtractDone
    /\ LET df == headers_frame(rows)
       IN \E p \in 1..Len(df) :
              /\ recovery_candidate(df, p)
              /\ df[p].Is_Province_Header
              /\ p + 2 <= Len(df)
              /\ affected(df, p + 1) + affected(df, p + 2) = df[p].AP
              /\ affected(df, p + 1) > 0
              /\ \E k \in 1..Len(out.table) : out.table[k].Province = df[p].Location

\* Returned row r is a bare Region header: its text is a region identifier
\* and its own Region, and it is no Province and no HUC row.
bare_region_header(r) ==
    /\ is_region_head(r)
    /\ r.Location = r.Region
    /\ ~r.Is_Province_Header
    /\ ~is_huc_location(r)

\* C24: structural noise never reaches the result of
\* extract_location_hierarchy: no returned row is a Region header row, none
\* has a missing or blank location or the page-break text 'None', and no two
\* returned rows are equal in every column.
C24_NoStructuralNoise ==
    ExtractDone =>
        /\ \A k \in 1..Len(out.table) :
               LET r == out.table[k]
               IN /\ ~bare_region_header(r)
                  /\ notna(r.Location)
                  /\ strip(r.Location) # ""
                  /\ r.Location # "None"
        /\ \A j, k \in 1..Len(out.table) :
               j < k => <<columns_of(out.table[j]), out.table[j].Level>>
                            # <<columns_of(out.table[k]), out.table[k].Level>>

\* C24 witness: a table with a Region header, a page-break row and the same
\* data row twice in a row has been reduced to its data rows.
C24_Witness ==
    /\ ExtractDone
    /\ Len(out.table) >= 1
    /\ \E i \in 1..Len(rows) : is_region_head(rows[i])
    /\ \E i \in 1..Len(rows) : rows[i].Location = "None"
    /\ \E i \in 2..Len(rows) :
           /\ rows[i] = rows[i - 1]
           /\ \E k \in 1..Len(out.table) : out.table[k].idx = i - 1
           /\ \A k \in 1..Len(out.table) : out.table[k].idx # i

\* C10: the rows of the result of extract_location_hierarchy and of
\* transform_affected_population keep the relative order they had in the
\* input.
C10_RowOrderPreserved ==
    (pc = "done" /\ out.status = "ok") =>
        \A i, j \in 1..Len(out.table) :
            i < j => out.table[i].idx < out.table[j].idx

-----------------------------------------------------------------------------
(* dromic_extractor.py: detect_admin_levels.  A table row is the text of   *)
(* the first column and the values of the numeric columns, in column       *)
(* order.                                                                   *)

NumCols == <<"c1", "c2">>

AdminNames == {"GRAND TOTAL", "NCR", "CAVITE", "Lucena City", "Tagaytay City"}

\* data/hucs_and_pcodes.csv: the city_first / city_last names.
huc_names == {"Lucena City"}

\* select_dtypes(include=np.number).all(): per numeric column, no value is 0.
no_0s(t) == [k \in 1..Len(NumCols) |-> \A i \in 1..Len(t) : t[i][NumCols[k]] # 0]

\* The huc column (lines 144-153): the names of the file with the two
\* overrides when the file is found, False on every row when it is not.
huc_flag(name, found) ==
    IF ~found THEN FALSE
    ELSE IF name = "Ormoc City" THEN TRUE
    ELSE IF name = "City of Manila" THEN FALSE
    ELSE strip(name) \in huc_names

\* The adm0 / adm1 / huc columns (lines 135-153).
flag_row(i, r, found) ==
    LET adm0 == contains_grand_total(r.name)
    IN [index |-> i - 1, name |-> r.name, c1 |-> r.c1, c2 |-> r.c2,
        adm0 |-> adm0,
        adm1 |-> isupper(r.name) /\ ~adm0,
        huc |-> huc_flag(r.name, found),
        adm2 |-> Null, adm3 |-> Null]

\* The counter loop (lines 162-188) from row `index` (0-based, as in the
\* code) on; st carries the adm2, adm3 and adm3_counter columns (position
\* index + 1 holds row index) and adm2_index, adm2_value.
RECURSIVE counter_loop(_, _, _)
counter_loop(vals, index, st) ==
    IF index >= Len(vals) THEN st
    ELSE
        LET at == index + 1
            adm2a == IF index = st.adm2_index
                     THEN [st.adm2 EXCEPT ![at] = TRUE] ELSE st.adm2
            counter1 == IF adm2a[at] = FALSE
                        THEN [st.adm3_counter EXCEPT
                                 ![at] = st.adm3_counter[IF index = 0 THEN Len(vals) ELSE at - 1]
                                         + vals[at]]
                        ELSE st.adm3_counter
            adm3a == IF counter1[at] <= st.adm2_value /\ counter1[at] > 0
                     THEN [st.adm3 EXCEPT ![at] = TRUE] ELSE st.adm3
            closes == counter1[at] = st.adm2_value
            has_next == index + 1 < Len(vals)
        IN counter_loop(vals, index + 1,
               [adm2 |-> IF closes /\ has_next THEN [adm2a EXCEPT ![at + 1] = TRUE] ELSE adm2a,
                adm3 |-> adm3a,
                adm3_counter |-> IF closes THEN [counter1 EXCEPT ![at] = 0] ELSE counter1,
                adm2_index |-> IF closes /\ has_next THEN index + 1 ELSE st.adm2_index,
                adm2_value |-> IF closes /\ has_next THEN vals[at + 1] ELSE st.adm2_value])

last_true(flags) == Max({k \in 1..Len(flags) : flags[k]})

\* no_0s[no_0s == True].index[0]: the first column whose flag is set.
first_true(flags) == Min({k \in 1..Len(flags) : flags[k]})

\* detect_admin_levels on the table t, the HUC file being found or not: the
\* ValueError of line 131 when no numeric column is free of zeros; the
\* IndexError of line 167 when no row is left for the counter; otherwise
\* the table with the adm2 / adm3 columns merged back.
detect_admin_levels(t, found) ==
    LET ok_cols == {k \in 1..Len(NumCols) : no_0s(t)[k]}
    IN IF ok_cols = {}
       THEN [status |-> "ValueError", first_numcol |-> Null, table |-> << >>]
       ELSE
        LET first_numcol == NumCols[first_true(no_0s(t))]
            admin_table == [i \in 1..Len(t) |-> flag_row(i, t[i], found)]
            admin2_3 == FilterSeq(admin_table, {i \in 1..Len(t) :
                            /\ admin_table[i].adm0 = FALSE
                            /\ admin_table[i].adm1 = FALSE
                            /\ admin_table[i].huc = FALSE})
            n == Len(admin2_3)
        IN IF n = 0
           THEN [status |-> "IndexError", first_numcol |-> first_numcol, table |-> << >>]
           ELSE
            LET vals == [i \in 1..n |-> admin2_3[i][first_numcol]]
                st == counter_loop(vals, 0,
                          [adm2 |-> [i \in 1..n |-> FALSE],
                           adm3 |-> [i \in 1..n |-> FALSE],
                           adm3_counter |-> [i \in 1..n |-> 0],
                           adm2_index |-> 0,
                           adm2_value |-> vals[1]])
                pos(i) == CHOOSE k \in 1..n : admin2_3[k].index = admin_table[i].index
            IN [status |-> "ok", first_numcol |-> first_numcol,
                table |-> [i \in 1..Len(t) |->
                    IF \E k \in 1..n : admin2_3[k].index = admin_table[i].index
                    THEN [admin_table[i] EXCEPT !.adm2 = st.adm2[pos(i)],
                                                !.adm3 = st.adm3[pos(i)]]
                    ELSE admin_table[i]]]

-----------------------------------------------------------------------------
(* The specification of detect_admin_levels.                               *)

MaxAdminRows == 3

\* The values of the two numeric columns of a row.
NumPairs == {<<1, 1>>, <<2, 2>>, <<1, 0>>, <<0, 1>>, <<0, 2>>}

AdminRowValues ==
    {[name |-> nm, c1 |-> p[1], c2 |-> p[2]] : nm \in AdminNames, p \in NumPairs}

AdminTables == UNION {[1..n -> AdminRowValues] : n \in 1..MaxAdminRows}

InitAdmin ==
    /\ pc = "start"
    /\ op = "none"
    /\ dout = NoResult
    /\ lrows = << >>
    /\ lout = NoResult
    /\ huc_file \in BOOLEAN
    /\ origin = << >>
    /\ clean = << >>
    /\ hrows = << >>
    /\ hout = NoResult
    /\ table \in AdminTables
    /\ levels = NoResult
    /\ rows = << >>
    /\ out = NoResult
    /\ prows = << >>
    /\ pout = NoResult

DetectAdminLevels ==
    /\ pc = "start"
    /\ levels' = detect_admin_levels(table, huc_file)
    /\ op' = "detect_admin_levels"
    /\ pc' = "done"
    /\ UNCHANGED <<rows, out, prows, pout, table, origin, clean, hrows, hout, dout, lrows, lout, huc_file>>

NextAdmin == DetectAdminLevels

SpecAdmin == InitAdmin /\ [][NextAdmin]_vars

-----------------------------------------------------------------------------
(* pcodes.py: the gazetteer pcode_df, the normalizer and the scorer on the *)
(* names of the model.                                                     *)

G(e1, c1, n1, e2, c2, n2, e3, c3, n3, e4, c4, n4) ==
    [ADM1_EN |-> e1, ADM1_new |-> c1, adm1_clean |-> n1,
     ADM2_EN |-> e2, ADM2_new |-> c2, adm2_clean |-> n2,
     ADM3_EN |-> e3, ADM3_new |-> c3, adm3_clean |-> n3,
     ADM4_EN |-> e4, ADM4_new |-> c4, adm4_clean |-> n4]

\* data/phl_adminareas_fixed.csv, one row per barangay, in load order.  The
\* table holds the same normalized name twice in one scope at every level
\* (regions R1/R3, provinces P1/P2 of R1, municipalities M1/M2 of P1,
\* barangays B1/B2 of M1), the municipality name "ma" under two provinces,
\* and a province (P5) without municipalities.
pcode_df ==
    << G("Reg One", "R1", "r1", "Prov A", "P1", "pa", "Mun A", "M1", "ma", "Bgy A", "B1", "ba"),
       G("Reg One", "R1", "r1", "Prov A", "P1", "pa", "Mun A", "M1", "ma", "Bgy A2", "B2", "ba"),
       G("Reg One", "R1", "r1", "Prov A", "P1", "pa", "Mun A2", "M2", "ma", "Bgy B", "B3", "bb"),
       G("Reg One", "R1", "r1", "Prov A2", "P2", "pa", "Mun B", "M3", "mb", "Bgy A3", "B4", "ba"),
       G("Reg Two", "R2", "r2", "Prov B", "P3", "pb", "Mun A3", "M4", "ma", "Bgy A4", "B5", "ba"),
       G("Reg Two", "R2", "r2", "Prov B", "P3", "pb", "Mun C", "M5", "mc", "Bgy C", "B6", "bc"),
       G("Reg One2", "R3", "r1", "Prov D", "P4", "pd", "Mun D", "M6", "md", "Bgy D", "B7", "bd"),
       G("Reg Two", "R2", "r2", "Prov E", "P5", "pe", Null, Null, Null, Null, Null, Null) >>

\* The names a row of the input can carry at each level.
RegionNames == {"Region R1", "Region R1X", "Region R1Z"}
ProvinceNames == {"PA", "PB", "PE", "PAX", "PAZ"}
MunicipalityNames == {"City of MA", "MC", "MAX", "MAZ"}
BarangayNames == {"Brgy. BA", "BAX", "BAZ"}

\* get_clean_names on the names of the model: case folding, removal of the
\* noise tokens ("region", "city of", "brgy."), strip.
get_clean_names(name) ==
    CASE name = "" -> ""
      [] name = "Region R1" -> "r1"
      [] name = "Region R1X" -> "r1x"
      [] name = "Region R1Z" -> "r1z"
      [] name = "PA" -> "pa"
      [] name = "PB" -> "pb"
      [] name = "PE" -> "pe"
      [] name = "PAX" -> "pax"
      [] name = "PAZ" -> "paz"
      [] name = "City of MA" -> "ma"
      [] name = "MC" -> "mc"
      [] name = "MAX" -> "max"
      [] name = "MAZ" -> "maz"
      [] name = "Brgy. BA" -> "ba"
      [] name = "BAX" -> "bax"
      [] name = "BAZ" -> "baz"

\* Series.fillna('')
fillna_blank(x) == IF isna(x) THEN "" ELSE x

\* The similarity score of the scorer of process.extractOne, tabulated on
\* the normalized names of the model: equal names score 100, a query
\* <name>x scores exactly 80 against <name>, a query <name>z scores 79, every
\* other pair scores 0.
near80 == [q \in {"r1x", "pax", "max", "bax"} |->
              CASE q = "r1x" -> "r1" [] q = "pax" -> "pa" [] q = "max" -> "ma" [] q = "bax" -> "ba"]
near79 == [q \in {"r1z", "paz", "maz", "baz"} |->
              CASE q = "r1z" -> "r1" [] q = "paz" -> "pa" [] q = "maz" -> "ma" [] q = "baz" -> "ba"]

score(query, choice) ==
    IF query = choice THEN 100
    ELSE IF query \in DOMAIN near80 /\ near80[query] = choice THEN 80
    ELSE IF query \in DOMAIN near79 /\ near79[query] = choice THEN 79
    ELSE 0

score_cutoff_81 == 80 + 1

score_cutoff == 80

\* process.extractOne(query, choices, score_cutoff=...): the first of the
\* best-scoring choices if its score reaches the cutoff, else None.
extractOne(query, choices) ==
    IF choices = << >> THEN Null
    ELSE LET best == Max({score(query, choices[k]) : k \in 1..Len(choices)})
             first == Min({k \in 1..Len(choices) : score(query, choices[k]) = best})
         IN IF best >= score_cutoff THEN choices[first] ELSE Null

\* column[mask].dropna().unique().tolist(): the non-missing values of a
\* column on the rows in mask, each once, in order of first appearance.
unique_list(col, mask) ==
    LET vals == [i \in 1..Len(pcode_df) |-> pcode_df[i][col]]
    IN FilterSeq(vals, {i \in mask : notna(vals[i])
                           /\ \A j \in mask : j < i => vals[j] # vals[i]})

all_rows == 1..Len(pcode_df)

iloc_last(S) == Max(S)

\* frame.iloc[0]: the first of the selected gazetteer rows.
iloc0(S) == Min(S)

NoMatch == [EN |-> Null, PCODE |-> Null, failed |-> FALSE]
IndexError == [EN |-> Null, PCODE |-> Null, failed |-> TRUE]

rows_with_adm1_en(matched_name) == {i \in all_rows : pcode_df[i].ADM1_EN = matched_name}

\* pcode_df[pcode_df['adm1_clean'] == matched_name]
rows_with_adm1_clean(matched_name) == {i \in all_rows : pcode_df[i].adm1_clean = matched_name}

\* pcode_df[pcode_df['adm2_clean'] == matched_name]
rows_with_adm2_clean(matched_name) == {i \in all_rows : pcode_df[i].adm2_clean = matched_name}

\* region_list (line 77) and province_list (line 93)
region_list == unique_list("adm1_clean", 1..Len(pcode_df))
province_list == unique_list("adm2_clean", 1..Len(pcode_df))

\* match_region (lines 79-87)
match_region(clean_name) ==
    IF clean_name = "" THEN NoMatch
    ELSE LET matched_name == extractOne(clean_name, region_list)
         IN IF isna(matched_name) THEN NoMatch
            ELSE IF rows_with_adm1_clean(matched_name) = {} THEN IndexError
            ELSE LET pcode_row == pcode_df[iloc0(rows_with_adm1_clean(matched_name))]
                 IN [EN |-> pcode_row.ADM1_EN, PCODE |-> pcode_row.ADM1_new, failed |-> FALSE]

NoProvince == [EN |-> Null, PCODE |-> Null, ADM1_EN_check |-> Null,
               ADM1_PCODE_check |-> Null, failed |-> FALSE]

\* match_province (lines 95-109)
match_province(province_clean) ==
    IF province_clean = "" THEN NoProvince
    ELSE LET matched_name == extractOne(province_clean, province_list)
         IN IF isna(matched_name) THEN NoProvince
            ELSE IF rows_with_adm2_clean(matched_name) = {}
            THEN [NoProvince EXCEPT !.failed = TRUE]
            ELSE LET pcode_row == pcode_df[iloc0(rows_with_adm2_clean(matched_name))]
                 IN [EN |-> pcode_row.ADM2_EN, PCODE |-> pcode_row.ADM2_new,
                     ADM1_EN_check |-> pcode_row.ADM1_EN,
                     ADM1_PCODE_check |-> pcode_row.ADM1_new, failed |-> FALSE]

mun_scope_all(ADM2_PCODE) == all_rows

\* pcode_df[pcode_df['ADM2_new'] == row['ADM2_PCODE']]
mun_scope(ADM2_PCODE) == {i \in all_rows : pcode_df[i].ADM2_new = ADM2_PCODE}

\* pcode_df[pcode_df['ADM3_new'] == row['ADM3_PCODE']]
brgy_scope(ADM3_PCODE) == {i \in all_rows : pcode_df[i].ADM3_new = ADM3_PCODE}

\* match_municipality (lines 120-137)
match_municipality(mun_clean, ADM2_PCODE) ==
    IF mun_clean = "" \/ isna(ADM2_PCODE) THEN NoMatch
    ELSE LET mun_list == unique_list("adm3_clean", mun_scope(ADM2_PCODE))
         IN IF mun_list = << >> THEN NoMatch
            ELSE LET matched_name == extractOne(mun_clean, mun_list)
                     pcode_row == {i \in mun_scope(ADM2_PCODE) :
                                      pcode_df[i].adm3_clean = matched_name}
                 IN IF isna(matched_name) \/ pcode_row = {} THEN NoMatch
                    ELSE [EN |-> pcode_df[iloc0(pcode_row)].ADM3_EN,
                          PCODE |-> pcode_df[iloc0(pcode_row)].ADM3_new, failed |-> FALSE]

\* match_barangay (lines 143-160)
match_barangay(brgy_clean, ADM3_PCODE) ==
    IF brgy_clean = "" \/ isna(ADM3_PCODE) THEN NoMatch
    ELSE LET brgy_list == unique_list("adm4_clean", brgy_scope(ADM3_PCODE))
         IN IF brgy_list = << >> THEN NoMatch
            ELSE LET matched_name == extractOne(brgy_clean, brgy_list)
                     pcode_row == {i \in brgy_scope(ADM3_PCODE) :
                                      pcode_df[i].adm4_clean = matched_name}
                 IN IF isna(matched_name) \/ pcode_row = {} THEN NoMatch
                    ELSE [EN |-> pcode_df[iloc0(pcode_row)].ADM4_EN,
                          PCODE |-> pcode_df[iloc0(pcode_row)].ADM4_new, failed |-> FALSE]

fillna_overwrite(value, other) == IF isna(other) THEN value ELSE other

\* Series.fillna(other): a missing value takes the value of other.
fillna(value, other) == IF isna(value) THEN other ELSE value

\* The row of the result for input row r (lines 63-162).  has_province,
\* has_municipality, has_barangay say whether the column has a value on some
\* row; a column the code does not create is missing on the row.
\* ADM1_*_matched is the pair match_region gave the row (line 89), before the
\* province-derived pair ADM1_*_check (line 111) fills the gaps.
pcode_row_of(i, r, has_province, has_municipality, has_barangay) ==
    LET region == match_region(get_clean_names(fillna_blank(r.Region)))
        province == IF has_province
                    THEN match_province(get_clean_names(fillna_blank(r.Province)))
                    ELSE NoProvince
        municipality == IF has_municipality /\ has_province
                        THEN match_municipality(get_clean_names(fillna_blank(r.Municipality)),
                                                province.PCODE)
                        ELSE NoMatch
        barangay == IF has_barangay /\ has_municipality
                    THEN match_barangay(get_clean_names(fillna_blank(r.Barangay)),
                                        municipality.PCODE)
                    ELSE NoMatch
    IN [idx |-> i, Region |-> r.Region, Province |-> r.Province,
        Municipality |-> r.Municipality, Barangay |-> r.Barangay,
        ADM0_EN |-> "Philippines", ADM0_PCODE |-> "PH",
        ADM1_EN_matched |-> region.EN, ADM1_PCODE_matched |-> region.PCODE,
        ADM1_EN_check |-> province.ADM1_EN_check,
        ADM1_PCODE_check |-> province.ADM1_PCODE_check,
        ADM1_EN |-> fillna(region.EN, province.ADM1_EN_check),
        ADM1_PCODE |-> fillna(region.PCODE, province.ADM1_PCODE_check),
        ADM2_EN |-> province.EN, ADM2_PCODE |-> province.PCODE,
        ADM3_EN |-> municipality.EN, ADM3_PCODE |-> municipality.PCODE,
        ADM4_EN |-> barangay.EN, ADM4_PCODE |-> barangay.PCODE,
        failed |-> region.failed \/ province.failed]

\* add_pcodes: one result row per input row; the call fails if a lookup of
\* a matched name finds no gazetteer row (.iloc[0] of an empty frame).
add_pcodes(df) ==
    LET has_province == \E i \in 1..Len(df) : notna(df[i].Province)
        has_municipality == \E i \in 1..Len(df) : notna(df[i].Municipality)
        has_barangay == \E i \in 1..Len(df) : notna(df[i].Barangay)
        output_df == [i \in 1..Len(df) |->
                         pcode_row_of(i, df[i], has_province, has_municipality, has_barangay)]
    IN IF \E i \in 1..Len(df) : output_df[i].failed
       THEN [status |-> "error", table |-> << >>]
       ELSE [status |-> "ok", table |-> output_df]

-----------------------------------------------------------------------------
(* The specification of add_pcodes.                                        *)

MaxPRows == 1

PRowValues ==
    [Region : RegionNames \cup {Null}, Province : ProvinceNames \cup {Null},
     Municipality : MunicipalityNames \cup {Null}, Barangay : BarangayNames \cup {Null}]

PTables == UNION {[1..n -> PRowValues] : n \in 1..MaxPRows}

InitPcodes ==
    /\ pc = "start"
    /\ op = "none"
    /\ dout = NoResult
    /\ lrows = << >>
    /\ lout = NoResult
    /\ huc_file = TRUE
    /\ origin = << >>
    /\ clean = << >>
    /\ hrows = << >>
    /\ hout = NoResult
    /\ prows \in PTables
    /\ pout = NoResult
    /\ rows = << >>
    /\ out = NoResult
    /\ table = << >>
    /\ levels = NoResult

AddPcodes ==
    /\ pc = "start"
    /\ pout' = add_pcodes(prows)
    /\ op' = "add_pcodes"
    /\ pc' = "done"
    /\ UNCHANGED <<rows, out, prows, table, levels, origin, clean, hrows, hout, dout, lrows, lout, huc_file>>

NextPcodes == AddPcodes

SpecPcodes == InitPcodes /\ [][NextPcodes]_vars

-----------------------------------------------------------------------------
(* Claims about detect_admin_levels.                                       *)

AdminDone == pc = "done" /\ op = "detect_admin_levels"

\* The numeric columns of the input table in which every value is non-zero.
nonzero_columns == {k \in 1..Len(NumCols) : \A i \in 1..Len(table) : table[i][NumCols[k]] # 0}

\* C9: detect_admin_levels fails with an error, before any row is labeled,
\* whenever no numeric column has only non-zero values; when such a column
\* exists the first one in column order is the counting column.
C9_CountingColumn ==
    AdminDone =>
        /\ nonzero_columns = {} =>
               /\ levels.status = "ValueError"
               /\ levels.table = << >>
        /\ nonzero_columns # {} =>
               /\ levels.status # "ValueError"
               /\ levels.first_numcol = NumCols[Min(nonzero_columns)]

\* C9 witness: the first column holds a zero and the second is the counting
\* column of a labeled table.
C9_Witness ==
    /\ AdminDone
    /\ levels.status = "ok"
    /\ nonzero_columns = {2}
    /\ levels.first_numcol = "c2"

AdminOk == AdminDone /\ levels.status = "ok"

\* The level flags set on a row of the result: adm0, adm1 or huc, adm2, adm3
\* (adm2 and adm3 are missing, not set, on the rows the counter does not scan).
level_flags(r) ==
    LET scanned == ~r.adm0 /\ ~r.adm1 /\ ~r.huc
    IN {f \in {"adm0", "adm1_or_huc", "adm2", "adm3"} :
           CASE f = "adm0" -> r.adm0
             [] f = "adm1_or_huc" -> r.adm1 \/ r.huc
             [] f = "adm2" -> scanned /\ r.adm2
             [] f = "adm3" -> scanned /\ r.adm3}

\* C12: after detect_admin_levels every row of the table has exactly one of
\* the level flags adm0, adm1-or-huc, adm2, adm3.
C12_ExactlyOneLevel ==
    AdminOk =>
        \A i \in 1..Len(levels.table) :
            Cardinality(level_flags(levels.table[i])) = 1

\* The rows of the result that the counter scans (not adm0, adm1 or huc), as
\* positions in the table, in order; and their counting-column values.
counted_rows ==
    FilterSeq([i \in 1..Len(levels.table) |-> i],
              {i \in 1..Len(levels.table) :
                  LET r == levels.table[i] IN ~r.adm0 /\ ~r.adm1 /\ ~r.huc})

counted_value(k) == levels.table[counted_rows[k]][levels.first_numcol]
counted_flag(k, f) == levels.table[counted_rows[k]][f]

\* The sum of the counting-column values of the counted rows a..b.
RECURSIVE running_sum(_, _)
running_sum(a, b) == IF b < a THEN 0 ELSE running_sum(a, b - 1) + counted_value(b)

\* The last group head among the counted rows, and whether the running sum
\* of the rows after it never equals its total.
last_head == Max({k \in 1..Len(counted_rows) : counted_flag(k, "adm2") = TRUE})

dangling ==
    /\ last_head < Len(counted_rows)
    /\ \A k \in (last_head + 1)..Len(counted_rows) :
           running_sum(last_head + 1, k) # counted_value(last_head)

\* A row of the input that the counter scans.
scanned_input(r) ==
    ~contains_grand_total(r.name) /\ ~isupper(r.name) /\ ~huc_flag(r.name, huc_file)

\* C17: when the running sum of the last group never equals the head's
\* total before the table ends (overshoot included), the run does not abort
\* and every row after the head is labeled adm3 and not adm2.
C17_DanglingGroupRowsAreChildren ==
    (AdminDone /\ nonzero_columns # {}
        /\ \E i \in 1..Len(table) : scanned_input(table[i])) =>
        /\ levels.status = "ok"
        /\ dangling =>
               \A k \in (last_head + 1)..Len(counted_rows) :
                   counted_flag(k, "adm3") = TRUE /\ counted_flag(k, "adm2") = FALSE

\* C18: the first row after an adm1 or HUC row that is itself not adm0, adm1
\* or HUC is labeled adm2, whatever the state of the group open before.
C18_HeadAfterHeader ==
    AdminOk =>
        \A i \in 2..Len(levels.table) :
            LET prev == levels.table[i - 1]
                r == levels.table[i]
            IN ((prev.adm1 \/ prev.huc) /\ ~r.adm0 /\ ~r.adm1 /\ ~r.huc) =>
                   r.adm2 = TRUE /\ r.adm3 = FALSE

\* C19: a row is labeled adm1 if and only if its text is fully upper-case,
\* it is not the GRAND TOTAL row and it is not a Region row.
C19_Adm1IffUpperCaseProvince ==
    AdminOk =>
        \A i \in 1..Len(levels.table) :
            LET r == levels.table[i]
            IN r.adm1 <=> /\ isupper(r.name)
                          /\ ~contains_grand_total(r.name)
                          /\ upper(strip(r.name)) \notin REGION_IDENTIFIERS

-----------------------------------------------------------------------------
(* Claims about add_pcodes.                                                *)

PcodesDone == pc = "done" /\ op = "add_pcodes"
PcodesOk == PcodesDone /\ pout.status = "ok"

\* The normalized name of row r of the result at a level.
query_of(r, level) == get_clean_names(fillna_blank(r[level]))

gaz == {pcode_df[i] : i \in 1..Len(pcode_df)}

\* The gazetteer rows the search of a level looks at for result row r:
\* every row for Region and Province, the rows of the Province code resolved
\* on r for Municipality, the rows of its Municipality code for Barangay.
candidates_of(r, level) ==
    CASE level = "Region" -> {i \in 1..Len(pcode_df) : notna(pcode_df[i].adm1_clean)}
      [] level = "Province" -> {i \in 1..Len(pcode_df) : notna(pcode_df[i].adm2_clean)}
      [] level = "Municipality" ->
            {i \in 1..Len(pcode_df) : notna(pcode_df[i].adm3_clean)
                                      /\ notna(r.ADM2_PCODE)
                                      /\ pcode_df[i].ADM2_new = r.ADM2_PCODE}
      [] level = "Barangay" ->
            {i \in 1..Len(pcode_df) : notna(pcode_df[i].adm4_clean)
                                      /\ notna(r.ADM3_PCODE)
                                      /\ pcode_df[i].ADM3_new = r.ADM3_PCODE}

clean_col(level) ==
    CASE level = "Region" -> "adm1_clean" [] level = "Province" -> "adm2_clean"
      [] level = "Municipality" -> "adm3_clean" [] level = "Barangay" -> "adm4_clean"
en_col(level) ==
    CASE level = "Region" -> "ADM1_EN" [] level = "Province" -> "ADM2_EN"
      [] level = "Municipality" -> "ADM3_EN" [] level = "Barangay" -> "ADM4_EN"
code_col(level) ==
    CASE level = "Region" -> "ADM1_new" [] level = "Province" -> "ADM2_new"
      [] level = "Municipality" -> "ADM3_new" [] level = "Barangay" -> "ADM4_new"

\* The (name, code) pair the matching of a level gave result row r.
resolved_of(r, level) ==
    CASE level = "Region" -> <<r.ADM1_EN_matched, r.ADM1_PCODE_matched>>
      [] level = "Province" -> <<r.ADM2_EN, r.ADM2_PCODE>>
      [] level = "Municipality" -> <<r.ADM3_EN, r.ADM3_PCODE>>
      [] level = "Barangay" -> <<r.ADM4_EN, r.ADM4_PCODE>>

Levels == {"Region", "Province", "Municipality", "Barangay"}

\* The best score of the query of r among the candidates of the level
\* (0 when there is none).
best_score(r, level) ==
    Max({0} \cup {score(query_of(r, level), pcode_df[i][clean_col(level)]) :
                    i \in candidates_of(r, level)})

\* The first gazetteer row among the candidates that scores best.
best_row(r, level) ==
    Min({i \in candidates_of(r, level) :
            score(query_of(r, level), pcode_df[i][clean_col(level)]) = best_score(r, level)})

\* C2: no code beneath an unresolved parent: a Municipality code needs a
\* Province code and a Barangay code needs a Municipality code on the same
\* row, an unresolved level leaves every level below it (null, null), and a
\* resolved Municipality / Barangay is a gazetteer entry of the parent code
\* resolved on the row.
C2_NoCodeBeneathUnresolvedParent ==
    PcodesOk =>
        \A i \in 1..Len(pout.table) :
            LET r == pout.table[i]
            IN /\ notna(r.ADM3_PCODE) =>
                      /\ notna(r.ADM2_PCODE)
                      /\ \E g \in gaz : /\ g.ADM2_new = r.ADM2_PCODE
                                        /\ g.ADM3_new = r.ADM3_PCODE
                                        /\ g.ADM3_EN = r.ADM3_EN
               /\ notna(r.ADM4_PCODE) =>
                      /\ notna(r.ADM3_PCODE)
                      /\ \E g \in gaz : /\ g.ADM3_new = r.ADM3_PCODE
                                        /\ g.ADM4_new = r.ADM4_PCODE
                                        /\ g.ADM4_EN = r.ADM4_EN
               /\ isna(r.ADM2_PCODE) =>
                      /\ isna(r.ADM3_EN) /\ isna(r.ADM3_PCODE)
                      /\ isna(r.ADM4_EN) /\ isna(r.ADM4_PCODE)
               /\ isna(r.ADM3_PCODE) => isna(r.ADM4_EN) /\ isna(r.ADM4_PCODE)

\* C2 witness: a row whose Province resolved to a code under which the
\* Municipality name resolved, while the same Municipality name also exists
\* under another Province of the gazetteer.
C2_Witness ==
    /\ PcodesOk
    /\ \E i \in 1..Len(pout.table) :
          LET r == pout.table[i]
          IN /\ notna(r.ADM3_PCODE)
             /\ \E g \in gaz : /\ notna(g.adm3_clean)
                               /\ g.adm3_clean = query_of(r, "Municipality")
                               /\ g.ADM2_new # r.ADM2_PCODE

\* The Province name of r has no gazetteer entry under region code R: no
\* Province of R scores at the threshold or above.
no_province_under(r, R) ==
    \A g \in gaz : g.ADM1_new = R => score(query_of(r, "Province"), g.adm2_clean) < 80

\* C3: Province matching is scoped to the Region resolved for the row: a
\* Province name with no gazetteer entry under that Region leaves the
\* Province, Municipality and Barangay codes of the row null.
C3_ProvinceScopedToRegion ==
    PcodesOk =>
        \A i \in 1..Len(pout.table) :
            LET r == pout.table[i]
            IN (/\ notna(r.ADM1_PCODE_matched)
                /\ query_of(r, "Province") # ""
                /\ no_province_under(r, r.ADM1_PCODE_matched)) =>
                   /\ isna(r.ADM2_PCODE)
                   /\ isna(r.ADM3_PCODE)
                   /\ isna(r.ADM4_PCODE)

\* C4: at every level, a non-blank name with candidates in scope resolves
\* to the first best-scoring candidate if the best score is at least 80,
\* and to (null, null) if it is below 80.
C4_ThresholdAt80 ==
    PcodesOk =>
        \A i \in 1..Len(pout.table) : \A level \in Levels :
            LET r == pout.table[i]
            IN (query_of(r, level) # "" /\ candidates_of(r, level) # {}) =>
                   IF best_score(r, level) >= 80
                   THEN resolved_of(r, level) =
                            <<pcode_df[best_row(r, level)][en_col(level)],
                              pcode_df[best_row(r, level)][code_col(level)]>>
                   ELSE resolved_of(r, level) = <<Null, Null>>

\* C4 witness: on one row the Province scores exactly 80 and is accepted
\* and the Municipality scores 79 and is rejected.
C4_Witness ==
    /\ PcodesOk
    /\ \E i \in 1..Len(pout.table) :
          LET r == pout.table[i]
          IN /\ best_score(r, "Province") = 80
             /\ notna(r.ADM2_PCODE)
             /\ candidates_of(r, "Municipality") # {}
             /\ best_score(r, "Municipality") = 79
             /\ isna(r.ADM3_PCODE)

\* Region-level matching gives row r no match: the Region name is blank or
\* its best score is below the threshold.
region_unmatched(r) == query_of(r, "Region") = "" \/ best_score(r, "Region") < 80

\* C5: Region fallback: where Region-level matching gives no match and the
\* Province resolved, ADM1 is the Region of the matched Province's gazetteer
\* entry; where Region-level matching succeeded ADM1 is its result.
C5_RegionFallback ==
    PcodesOk =>
        \A i \in 1..Len(pout.table) :
            LET r == pout.table[i]
            IN /\ (region_unmatched(r) /\ notna(r.ADM2_PCODE)) =>
                      \E g \in gaz : /\ g.ADM2_new = r.ADM2_PCODE
                                     /\ r.ADM1_EN = g.ADM1_EN
                                     /\ r.ADM1_PCODE = g.ADM1_new
               /\ ~region_unmatched(r) =>
                      /\ r.ADM1_EN = pcode_df[best_row(r, "Region")].ADM1_EN
                      /\ r.ADM1_PCODE = pcode_df[best_row(r, "Region")].ADM1_new

\* C5 witness: a row whose Region name did not match and whose Province did.
C5_Witness ==
    /\ PcodesOk
    /\ \E i \in 1..Len(pout.table) :
          LET r == pout.table[i]
          IN /\ notna(r.Region)
             /\ region_unmatched(r)
             /\ notna(r.ADM2_PCODE)
             /\ notna(r.ADM1_PCODE)

\* The code of the parent of gazetteer row g at a level ("PH" for a Region).
parent_code(g, level) ==
    CASE level = "Region" -> "PH" [] level = "Province" -> g.ADM1_new
      [] level = "Municipality" -> g.ADM2_new [] level = "Barangay" -> g.ADM3_new

\* The gazetteer rows of the entries that share scope (level, parent) and
\* normalized name with the entry of code c.
same_scope_and_name(c, level) ==
    {j \in 1..Len(pcode_df) :
        \E k \in 1..Len(pcode_df) :
            /\ pcode_df[k][code_col(level)] = c
            /\ parent_code(pcode_df[j], level) = parent_code(pcode_df[k], level)
            /\ pcode_df[j][clean_col(level)] = pcode_df[k][clean_col(level)]}

\* C6: with several gazetteer entries of one normalized name in one (level,
\* parent) scope, a row that resolves to one of them resolves to the
\* first-loaded; add_pcodes gives one result row per input row and does not
\* fail.
C6_FirstLoadedDuplicateWins ==
    PcodesDone =>
        /\ pout.status = "ok"
        /\ Len(pout.table) = Len(prows)
        /\ \A i \in 1..Len(pout.table) : \A level \in Levels :
              LET c == resolved_of(pout.table[i], level)[2]
              IN notna(c) =>
                     pcode_df[Min(same_scope_and_name(c, level))][code_col(level)] = c

\* C6 witness: a row resolved, at the Municipality level, to an entry whose
\* normalized name a second entry of the same Province carries.
C6_Witness ==
    /\ PcodesOk
    /\ \E i \in 1..Len(pout.table) :
          LET c == pout.table[i].ADM3_PCODE
          IN /\ notna(c)
             /\ \E j \in same_scope_and_name(c, "Municipality") :
                    pcode_df[j].ADM3_new # c

\* C7: a resolution miss is no exception: add_pcodes returns one row per
\* input row, and a level whose name is blank, whose candidate scope is
\* empty or whose best score is below the threshold is (null, null).
C7_MissIsNullNotException ==
    PcodesDone =>
        /\ pout.status = "ok"
        /\ Len(pout.table) = Len(prows)
        /\ \A i \in 1..Len(pout.table) :
              LET r == pout.table[i]
              IN /\ r.idx = i
                 /\ \A level \in Levels :
                        /\ r[level] = prows[i][level]
                        /\ (\/ query_of(r, level) = ""
                            \/ candidates_of(r, level) = {}
                            \/ best_score(r, level) < 80) =>
                               resolved_of(r, level) = <<Null, Null>>

\* C7 witness: a row with a blank Region name, a Province that resolved and
\* has no Municipality in the gazetteer, and a Municipality name: the name
\* is searched in an empty scope.
C7_Witness ==
    /\ PcodesOk
    /\ \E i \in 1..Len(pout.table) :
          LET r == pout.table[i]
          IN /\ isna(r.Region)
             /\ notna(r.ADM2_PCODE)
             /\ notna(r.Municipality)
             /\ candidates_of(r, "Municipality") = {}
             /\ isna(r.ADM3_PCODE)

-----------------------------------------------------------------------------
(* pcodes.py / dromic_extractor.py: get_clean_names on one name.  A string *)
(* is the sequence of its characters.                                      *)

Whitespace == {" "}

\* str.casefold() on the letters of the model.
casefold_char(c) ==
    CASE c = "C" -> "c" [] c = "D" -> "d" [] c = "I" -> "i" [] c = "S" -> "s"
      [] c = "V" -> "v" [] c = "X" -> "x" [] OTHER -> c

casefold(s) == [i \in 1..Len(s) |-> casefold_char(s[i])]

\* A pattern is a sequence of atoms: a character stands for itself, AnyChar for
\* the regular expression '.', Ws for '\s'.
AnyChar == "<any>"
Ws == "<ws>"

atom_matches(a, c) ==
    IF a = AnyChar THEN TRUE ELSE IF a = Ws THEN c \in Whitespace ELSE a = c

\* The length of the match of pattern pat at position i of s, 0 when there
\* is none; with tail the pattern ends in ($|\s).
match_at(s, i, pat, tail) ==
    LET n == Len(pat)
    IN IF i + n - 1 > Len(s) THEN 0
       ELSE IF \E k \in 1..n : ~atom_matches(pat[k], s[i + k - 1]) THEN 0
       ELSE IF ~tail THEN n
       ELSE IF i + n = Len(s) + 1 THEN n
       ELSE IF s[i + n] \in Whitespace THEN n + 1
       ELSE 0

\* str.replace(pat, repl): every match, left to right, without overlap, from
\* position i on.
RECURSIVE replace_from(_, _, _, _, _)
replace_from(s, i, pat, tail, repl) ==
    IF i > Len(s) THEN << >>
    ELSE LET m == match_at(s, i, pat, tail)
         IN IF m > 0 THEN repl \o replace_from(s, i + m, pat, tail, repl)
            ELSE <<s[i]>> \o replace_from(s, i + 1, pat, tail, repl)

str_replace(s, pat, repl) == replace_from(s, 1, pat, FALSE, repl)

\* str.replace(r"\(.*\)", ""): the greedy match runs from the first '(' to
\* the last ')' after it.
remove_parenthetical(s) ==
    LET opens == {i \in 1..Len(s) : s[i] = "("}
    IN IF opens = {} THEN s
       ELSE LET first == Min(opens)
                closes == {j \in (first + 1)..Len(s) : s[j] = ")"}
            IN IF closes = {} THEN s
               ELSE SubSeq(s, 1, first - 1) \o SubSeq(s, Max(closes) + 1, Len(s))

\* The loop over strings_to_remove (after the parenthetical pattern).
RECURSIVE remove_all(_, _)
remove_all(s, patterns) ==
    IF patterns = << >> THEN s
    ELSE remove_all(str_replace(s, Head(patterns), << >>), Tail(patterns))

\* strings_to_remove of pcodes.py, after r"\(.*\)".
pcodes_strings_to_remove ==
    <<<<"c", "i", "t", "y", " ", "o", "f">>, <<"c", "i", "t", "y">>, <<"b", "r", "g", "y", AnyChar>>,
      <<"b", "a", "r", "a", "n", "g", "a", "y">>, <<"r", "e", "g", "i", "o", "n">>,
      <<"p", "r", "o", "v", "i", "n", "c", "e", " ", "o", "f">>,
      <<"m", "u", "n", "i", "c", "i", "p", "a", "l", "i", "t", "y", " ", "o", "f">>,
      <<"-">>, <<"*">>, <<",">>>>

\* strings_to_remove of dromic_extractor.py, after r"\(.*\)".
dromic_strings_to_remove ==
    <<<<"c", "i", "t", "y", " ", "o", "f">>, <<"c", "i", "t", "y">>, <<"b", "r", "g", "y", AnyChar>>,
      <<"b", "a", "r", "a", "n", "g", "a", "y">>, <<"r", "e", "g", "i", "o", "n">>,
      <<"-">>, <<"*">>>>

\* unidecode on the characters of the model; NTilde is the one character
\* n-with-tilde.
NTilde == "n~"

unidecode_char(c) == IF c = NTilde THEN <<"n">> ELSE <<c>>

RECURSIVE unidecode(_)
unidecode(s) ==
    IF s = << >> THEN << >> ELSE unidecode_char(Head(s)) \o unidecode(Tail(s))

\* numeral_dict, in the order of the dictionary.
Roman ==
    <<<<"i">>,
      <<"i", "i">>,
      <<"i", "i", "i">>,
      <<"i", "v">>,
      <<"v">>,
      <<"v", "i">>,
      <<"v", "i", "i">>,
      <<"v", "i", "i", "i">>,
      <<"i", "x">>,
      <<"x">>,
      <<"x", "i">>,
      <<"x", "i", "i">>,
      <<"x", "i", "i", "i">>>>

Arabic ==
    <<<<"1">>, <<"2">>, <<"3">>, <<"4">>, <<"5">>, <<"6">>, <<"7">>, <<"8">>, <<"9">>,
      <<"1", "0">>, <<"1", "1">>, <<"1", "2">>, <<"1", "3">>>>

\* The loop over numeral_dict from entry k on: r"\s<roman>($|\s)" -> " <arabic>".
RECURSIVE replace_numerals(_, _)
replace_numerals(s, k) ==
    IF k > Len(Roman) THEN s
    ELSE replace_numerals(
             replace_from(s, 1, <<Ws>> \o Roman[k], TRUE, <<" ">> \o Arabic[k]),
             k + 1)

\* "st." -> "san", then "sta." -> "santa" (regex=False).
replace_saints(s) ==
    str_replace(str_replace(s, <<"s", "t", ".">>, <<"s", "a", "n">>),
                <<"s", "t", "a", ".">>, <<"s", "a", "n", "t", "a">>)

\* str.strip()
str_strip(s) ==
    LET solid == {i \in 1..Len(s) : s[i] \notin Whitespace}
    IN IF solid = {} THEN << >> ELSE SubSeq(s, Min(solid), Max(solid))

\* pcodes.get_clean_names on one name.
pcodes_get_clean_names(s) ==
    LET removed == remove_all(remove_parenthetical(casefold(s)),
                              pcodes_strings_to_remove)
        no_dots == str_replace(removed, <<".">>, << >>)
    IN str_strip(replace_saints(replace_numerals(unidecode(no_dots), 1)))

\* dromic_extractor.get_clean_names on one name.
dromic_get_clean_names(s) ==
    LET removed == remove_all(remove_parenthetical(casefold(s)),
                              dromic_strings_to_remove)
    IN str_strip(replace_saints(replace_numerals(unidecode(removed), 1)))

-----------------------------------------------------------------------------
(* transformations.py: transform_damaged_houses.  A row carries Location,  *)
(* the text of Totally_Damaged (TD) and the number Grand_Total_Damaged     *)
(* holds after the conversion of Step 14 (GT, NaN when it is no number);   *)
(* idx is the position of the row in the input.                            *)

house_row(i, r) ==
    [idx |-> i, Location |-> r.Location, TD |-> r.TD, GT |-> r.GT,
     Region |-> Null, Province |-> Null, Municipality |-> Null,
     Barangay |-> Null, Level |-> Null]

\* Step 2 and Step 2.5: remove the repeated header rows and GRAND TOTAL
\* (on a Location column that has the .str accessor).
dh_remove_headers(df) ==
    FilterSeq(df, {i \in 1..Len(df) :
        df[i].TD # "TOTALLY" /\ ~contains_grand_total(df[i].Location)})

\* Steps 4 to 8: Region of the region rows, filled down; the region rows
\* themselves are removed.
dh_regions(df) ==
    LET marked == [i \in 1..Len(df) |->
                      IF upper(strip(str(df[i].Location))) \in REGION_IDENTIFIERS
                      THEN df[i].Location ELSE Null]
        filled == ffill(marked)
        with_region == [i \in 1..Len(df) |-> [df[i] EXCEPT !.Region = filled[i]]]
    IN FilterSeq(with_region, {i \in 1..Len(df) :
           ~(notna(with_region[i].Region) /\ notna(with_region[i].Location)
             /\ with_region[i].Region = with_region[i].Location)})

\* Step 10: an upper-case row of the region's province list.
dh_is_province(r) ==
    /\ notna(r.Region)
    /\ LET region == upper(strip(str_none(r.Region)))
           location == strip(str(r.Location))
       IN /\ region \in DOMAIN REGION_PROVINCE_MAP
          /\ in_list(upper(location), REGION_PROVINCE_MAP[region])
          /\ isupper(location)

\* Steps 9 to 13: Province of the province rows, filled down over the whole
\* table; the province rows themselves are removed.
dh_provinces(df) ==
    LET marked == [i \in 1..Len(df) |->
                      IF dh_is_province(df[i]) THEN df[i].Location ELSE Null]
        filled == ffill(marked)
        with_province == [i \in 1..Len(df) |-> [df[i] EXCEPT !.Province = filled[i]]]
    IN FilterSeq(with_province, {i \in 1..Len(df) :
           ~(notna(with_province[i].Province) /\ notna(with_province[i].Location)
             /\ with_province[i].Province = with_province[i].Location)})

\* The state of the scan of Step 16 before its first row.
dh_scan_init ==
    [tracking |-> FALSE, municipality_total |-> 0, cumulative_total |-> 0,
     previous_province |-> Null]

dh_scan_close_exact(cumulative_total, municipality_total) ==
    cumulative_total = municipality_total

dh_scan_close_late(cumulative_total, municipality_total) ==
    cumulative_total > municipality_total

\* Step 16, the test that closes a group.
dh_scan_close(cumulative_total, municipality_total) ==
    cumulative_total >= municipality_total

dh_is_blank_empty_only(location) == location = ""

\* Step 16, the test of a blank location: the stripped text is empty or is
\* 'nan', the text of a missing cell.
dh_is_blank(location) == location = "" \/ location = "nan"

\* Step 16: the scan from row i on; st is current_municipality_idx (as
\* tracking), municipality_total, cumulative_total and previous_province.
\* A missing Location prints as 'nan' and takes the blank branch.
RECURSIVE dh_scan(_, _, _)
dh_scan(df, i, st) ==
    IF i > Len(df) THEN df
    ELSE
        LET row == df[i]
            location == strip(str(row.Location))
            gt == IF row.GT = NaN THEN 0 ELSE row.GT
            st1 == IF row.Province # st.previous_province
                   THEN [tracking |-> FALSE, municipality_total |-> 0,
                         cumulative_total |-> 0, previous_province |-> row.Province]
                   ELSE st
        IN IF dh_is_blank(location)
           THEN dh_scan(df, i + 1, [st1 EXCEPT !.tracking = FALSE,
                                               !.municipality_total = 0,
                                               !.cumulative_total = 0])
           ELSE IF st1.tracking
           THEN LET cumulative_total == st1.cumulative_total + gt
                IN dh_scan([df EXCEPT ![i].Barangay = location], i + 1,
                       IF dh_scan_close(cumulative_total, st1.municipality_total)
                       THEN [st1 EXCEPT !.tracking = FALSE, !.municipality_total = 0,
                                        !.cumulative_total = 0]
                       ELSE [st1 EXCEPT !.cumulative_total = cumulative_total])
           ELSE dh_scan([df EXCEPT ![i].Municipality = location], i + 1,
                        [st1 EXCEPT !.tracking = TRUE, !.municipality_total = gt,
                                    !.cumulative_total = 0])

\* Step 17 and Step 17.5: Municipality filled down, then the Level.
dh_levels(df) ==
    LET filled == ffill(column(df, "Municipality"))
    IN [i \in 1..Len(df) |->
           [df[i] EXCEPT !.Municipality = filled[i],
                         !.Level = IF notna(df[i].Barangay) THEN "Barangay"
                                   ELSE IF notna(filled[i]) THEN "Municipality"
                                   ELSE Null]]

\* Step 18: remove the blank location rows.
dh_remove_blank(df) ==
    FilterSeq(df, {i \in 1..Len(df) :
        /\ notna(df[i].Location)
        /\ strip(df[i].Location) # ""
        /\ df[i].Location # "nan"})

\* The result of transform_damaged_houses on the table t: Step 2.5 raises
\* AttributeError when the Location column holds no text.
transform_damaged_houses(t) ==
    LET df13 == dh_provinces(dh_regions(dh_remove_headers(
                    [i \in 1..Len(t) |-> house_row(i, t[i])])))
    IN IF str_accessor_raises(column(t, "Location"))
       THEN [status |-> "error", table |-> << >>]
       ELSE [status |-> "ok",
             table |-> dh_remove_blank(dh_levels(dh_scan(df13, 1, dh_scan_init)))]

-----------------------------------------------------------------------------
(* The specification of the two group scans: one report of at most         *)
(* MaxGroupRows rows (location, value) is given to detect_admin_levels as  *)
(* it is, and to transform_damaged_houses under a Region and a Province    *)
(* header row, the value being Grand_Total_Damaged.                        *)

MaxGroupRows == 5

GroupNames == {"Tagaytay City", "CAVITE", " "}
GroupValues == {1, 2}

GroupTables ==
    UNION {[1..n -> {[name |-> nm, c1 |-> v, c2 |-> v] :
                        nm \in GroupNames, v \in GroupValues}] :
           n \in 1..MaxGroupRows}

HouseHeaderRows ==
    <<[Location |-> "REGION IV-A", TD |-> Null, GT |-> NaN],
      [Location |-> "CAVITE", TD |-> Null, GT |-> NaN]>>

\* The report t as a damaged-houses table.
as_house_rows(t) ==
    HouseHeaderRows \o
        [i \in 1..Len(t) |-> [Location |-> t[i].name, TD |-> "1", GT |-> t[i].c1]]

InitCounter ==
    /\ pc = "start"
    /\ op = "none"
    /\ dout = NoResult
    /\ lrows = << >>
    /\ lout = NoResult
    /\ huc_file \in BOOLEAN
    /\ table \in GroupTables
    /\ levels = NoResult
    /\ hrows = as_house_rows(table)
    /\ hout = NoResult
    /\ origin = << >>
    /\ clean = << >>
    /\ rows = << >>
    /\ out = NoResult
    /\ prows = << >>
    /\ pout = NoResult

TransformDamagedHouses ==
    /\ pc = "start"
    /\ hout' = transform_damaged_houses(hrows)
    /\ op' = "transform_damaged_houses"
    /\ pc' = "done"
    /\ UNCHANGED <<rows, out, prows, pout, table, levels, origin, clean, hrows, dout, lrows, lout, huc_file>>

NextCounter == DetectAdminLevels \/ TransformDamagedHouses

SpecCounter == InitCounter /\ [][NextCounter]_vars

-----------------------------------------------------------------------------
(* Claims about the group scans.                                           *)

HousesDone == pc = "done" /\ op = "transform_damaged_houses"

\* detect_admin_levels: the running sum of the counted rows after head h
\* first equals the head's value at the k-th row after it.
admin_closes_at(h, k) ==
    /\ counted_flag(h, "adm2") = TRUE
    /\ k >= 1
    /\ h + k <= Len(counted_rows)
    /\ running_sum(h + 1, h + k) = counted_value(h)

admin_group_closed(h, k) ==
    /\ \A j \in (h + 1)..(h + k) :
           counted_flag(j, "adm3") = TRUE /\ counted_flag(j, "adm2") = FALSE
    /\ h + k + 1 <= Len(counted_rows) =>
           /\ counted_flag(h + k + 1, "adm2") = TRUE
           /\ counted_flag(h + k + 1, "adm3") = FALSE

\* The sum of Grand_Total_Damaged over rows a..b of the table t.
RECURSIVE house_sum(_, _, _)
house_sum(t, a, b) == IF b < a THEN 0 ELSE house_sum(t, a, b - 1) + t[b].GT

\* transform_damaged_houses: rows h..h+k of the result t are one run of the
\* input without a blank location in between, in one Province, row h is a
\* Municipality row and the running sum of the k rows after it first
\* equals its Grand_Total_Damaged at the k-th.
house_closes_at(t, input, h, k) ==
    /\ k >= 1
    /\ h + k <= Len(t)
    /\ t[h].Level = "Municipality"
    /\ \A j \in h..(h + k) : t[j].Province = t[h].Province /\ t[j].GT # NaN
    /\ \A i \in t[h].idx..t[Min({h + k + 1, Len(t)})].idx :
           strip(str(input[i].Location)) # ""
    /\ house_sum(t, h + 1, h + k) = t[h].GT

house_group_closed(t, h, k) ==
    /\ \A j \in (h + 1)..(h + k) :
           /\ t[j].Level = "Barangay"
           /\ t[j].Municipality = strip(t[h].Location)
    /\ (h + k + 1 <= Len(t) /\ t[h + k + 1].Province = t[h].Province) =>
           /\ t[h + k + 1].Level = "Municipality"
           /\ t[h + k + 1].Municipality = strip(t[h + k + 1].Location)

\* C16: when the running sum of the positive values after a group head
\* first equals the head's total at the k-th following row, rows 1..k are
\* the head's children, the k-th is the last of them, and row k+1 is a new
\* group head (detect_admin_levels, and transform_damaged_houses within one
\* Province with non-blank locations).
C16_ExactGroupClosure ==
    /\ AdminOk =>
           \A h \in 1..Len(counted_rows) : \A k \in 1..Len(counted_rows) :
               admin_closes_at(h, k) => admin_group_closed(h, k)
    /\ HousesDone =>
           \A h \in 1..Len(hout.table) : \A k \in 1..Len(hout.table) :
               house_closes_at(hout.table, hrows, h, k) =>
                   house_group_closed(hout.table, h, k)

\* C16 witness: detect_admin_levels has labeled a report in which a group
\* closes at the second row after its head and another row follows, and
\* transform_damaged_houses closes a group of two on the same report.
C16_Witness ==
    /\ AdminOk
    /\ \E h \in 1..Len(counted_rows) :
           admin_closes_at(h, 2) /\ h + 3 <= Len(counted_rows)
    /\ LET t == transform_damaged_houses(hrows).table
       IN \E h \in 1..Len(t) : house_closes_at(t, hrows, h, 2) /\ h + 3 <= Len(t)

-----------------------------------------------------------------------------
(* The specification of transform_damaged_houses alone: under the Region   *)
(* and Province header rows, at most MaxHouseRows rows: Province headers,  *)
(* rows with a total of 2, 1 or none, blank rows and rows whose location   *)
(* cell is missing (NaN).                                                  *)

MaxHouseRows == 5

HouseRows ==
    {[Location |-> "CAVITE", TD |-> Null, GT |-> NaN],
     [Location |-> "LUCENA CITY", TD |-> Null, GT |-> NaN],
     [Location |-> "Tagaytay City", TD |-> "1", GT |-> 2],
     [Location |-> "Tagaytay City", TD |-> Null, GT |-> NaN],
     [Location |-> "Brgy. Sungay", TD |-> "1", GT |-> 1],
     [Location |-> " ", TD |-> Null, GT |-> NaN],
     [Location |-> Null, TD |-> Null, GT |-> NaN]}

HouseTables(max) == UNION {[1..n -> HouseRows] : n \in 1..max}

InitHouses ==
    /\ pc = "start"
    /\ op = "none"
    /\ dout = NoResult
    /\ lrows = << >>
    /\ lout = NoResult
    /\ huc_file = TRUE
    /\ \E t \in HouseTables(MaxHouseRows) : hrows = HouseHeaderRows \o t
    /\ hout = NoResult
    /\ table = << >>
    /\ levels = NoResult
    /\ origin = << >>
    /\ clean = << >>
    /\ rows = << >>
    /\ out = NoResult
    /\ prows = << >>
    /\ pout = NoResult

NextHouses == TransformDamagedHouses

SpecHouses == InitHouses /\ [][NextHouses]_vars

-----------------------------------------------------------------------------
(* Claims about transform_damaged_houses.                                  *)

\* The nearest Municipality row at or above row k of the result t; 0 if none.
municipality_above(t, k) ==
    Max({0} \cup {j \in 1..k : t[j].Level = "Municipality"})

\* C26: every row transform_damaged_houses returns is labeled Municipality
\* or Barangay, the first returned row of each Province is labeled
\* Municipality, and the Municipality of a Barangay row is the location of the
\* nearest Municipality row above it, which is in the same Province.
C26_HouseScanInvariant ==
    HousesDone =>
        LET t == hout.table
        IN \A k \in 1..Len(t) :
               /\ t[k].Level \in {"Municipality", "Barangay"}
               /\ (k = 1 \/ t[k].Province # t[k - 1].Province) =>
                      t[k].Level = "Municipality"
               /\ t[k].Level = "Barangay" =>
                      LET m == municipality_above(t, k)
                      IN /\ m > 0
                         /\ t[k].Municipality = strip(t[m].Location)
                         /\ t[m].Province = t[k].Province

\* C26 witness: the returned table holds a Barangay row under its
\* Municipality and a second Province whose first returned row stood
\* directly below a row with a missing location cell, which the scan took as
\* blank.
C26_Witness ==
    /\ HousesDone
    /\ LET t == hout.table
       IN /\ \E k \in 2..Len(t) :
                 /\ t[k].Level = "Barangay"
                 /\ t[k - 1].Level = "Municipality"
                 /\ t[k].Municipality = strip(t[k - 1].Location)
          /\ \E k \in 2..Len(t) :
                 /\ t[k].Province # t[k - 1].Province
                 /\ hrows[t[k].idx - 1].Location = Null
                 /\ t[k].Level = "Municipality"

\* Grand_Total_Damaged of row j of t, a missing value counting as 0.
damage(t, j) == IF t[j].GT = NaN THEN 0 ELSE t[j].GT

RECURSIVE damage_sum(_, _, _)
damage_sum(t, a, b) == IF b < a THEN 0 ELSE damage_sum(t, a, b - 1) + damage(t, b)

\* The running sum of the rows after Municipality row h of t first reaches
\* or passes the declared total of row h at the k-th row after it.
first_reached_at(t, h, k) ==
    /\ t[h].Level = "Municipality"
    /\ k >= 1
    /\ h + k <= Len(t)
    /\ damage_sum(t, h + 1, h + k) >= damage(t, h)
    /\ \A n \in 1..(k - 1) : damage_sum(t, h + 1, h + n) < damage(t, h)

\* Rows a..b of t are in one Province.
one_province(t, a, b) == \A j \in a..b : t[j].Province = t[a].Province

\* Rows a..b of t stood one below the other in the input: no blank row (a
\* blank or missing location) between them.
consecutive(t, a, b) == \A j \in a..(b - 1) : t[j + 1].idx = t[j].idx + 1

\* Rows h+1..h+k of t are the Barangays of row h and the next row, when there
\* is one, is a new Municipality.
closed_with(t, h, k) ==
    /\ \A j \in (h + 1)..(h + k) :
           t[j].Level = "Barangay" /\ t[j].Municipality = strip(t[h].Location)
    /\ h + k + 1 <= Len(t) => t[h + k + 1].Level = "Municipality"

blank_location(x) == dh_is_blank(strip(str(x)))

-----------------------------------------------------------------------------
(* The specification of the normalizers: a name made of at most MaxPieces  *)
(* pieces, then one of the two get_clean_names.                            *)

MaxPieces == 5

Pieces ==
    {<<"D", "i", "s", "t", "r", "i", "c", "t">>, <<" ">>, <<"I">>, <<"V">>, <<"X">>,
     <<"-">>, <<"C", "i">>, <<"t", "y">>}

RECURSIVE concat(_)
concat(ps) == IF ps = << >> THEN << >> ELSE Head(ps) \o concat(Tail(ps))

Names(max) == {concat(ps) : ps \in UNION {[1..n -> Pieces] : n \in 0..max}}

InitNames ==
    /\ pc = "start"
    /\ op = "none"
    /\ dout = NoResult
    /\ lrows = << >>
    /\ lout = NoResult
    /\ huc_file = TRUE
    /\ origin \in Names(MaxPieces)
    /\ clean = << >>
    /\ hrows = << >>
    /\ hout = NoResult
    /\ rows = << >>
    /\ out = NoResult
    /\ prows = << >>
    /\ pout = NoResult
    /\ table = << >>
    /\ levels = NoResult

PcodesGetCleanNames ==
    /\ pc = "start"
    /\ clean' = pcodes_get_clean_names(origin)
    /\ op' = "pcodes.get_clean_names"
    /\ pc' = "done"
    /\ UNCHANGED <<rows, out, prows, pout, table, levels, origin, hrows, hout, dout, lrows, lout, huc_file>>

DromicGetCleanNames ==
    /\ pc = "start"
    /\ clean' = dromic_get_clean_names(origin)
    /\ op' = "dromic_extractor.get_clean_names"
    /\ pc' = "done"
    /\ UNCHANGED <<rows, out, prows, pout, table, levels, origin, hrows, hout, dout, lrows, lout, huc_file>>

NextNames == PcodesGetCleanNames \/ DromicGetCleanNames

SpecNames == InitNames /\ [][NextNames]_vars

-----------------------------------------------------------------------------
(* Claims about get_clean_names.                                           *)

NamesDone ==
    pc = "done" /\ op \in {"pcodes.get_clean_names", "dromic_extractor.get_clean_names"}

\* The normalizer that produced the result, applied to s.
normalizer(s) ==
    IF op = "pcodes.get_clean_names" THEN pcodes_get_clean_names(s)
    ELSE dromic_get_clean_names(s)

\* C14: get_clean_names is idempotent: applied to its own result it returns
\* that result, for both normalizers.
C14_Idempotent ==
    NamesDone => normalizer(clean) = clean

\* Roman numeral k stands at position i of s as a whole token after another
\* token: white space before it, and the end of the name or white space
\* after it.
numeral_token_at(s, i, k) ==
    LET n == Len(Roman[k])
    IN /\ i > 1
       /\ i + n - 1 <= Len(s)
       /\ casefold(SubSeq(s, i, i + n - 1)) = Roman[k]
       /\ s[i - 1] \in Whitespace
       /\ \E j \in 1..(i - 1) : s[j] \notin Whitespace
       /\ (i + n - 1 = Len(s) \/ s[i + n] \in Whitespace)

\* s with the numeral token at position i written as its Arabic numeral.
with_arabic(s, i, k) ==
    SubSeq(s, 1, i - 1) \o Arabic[k] \o SubSeq(s, i + Len(Roman[k]), Len(s))

\* C15: a name with a Roman numeral I to XIII as a whole token (at the end
\* of the name or followed by further tokens) normalizes to the same key as
\* the name with that token written as its Arabic numeral.
C15_NumeralStyle ==
    NamesDone =>
        \A k \in 1..Len(Roman) : \A i \in 1..Len(origin) :
            numeral_token_at(origin, i, k) =>
                normalizer(with_arabic(origin, i, k)) = clean

-----------------------------------------------------------------------------
(* The specification of the saint abbreviations: a name made of at most    *)
(* MaxSaintPieces pieces, among them 'St.' and 'Sta.', then one of the two *)
(* get_clean_names.                                                        *)

MaxSaintPieces == 3

SaintPieces ==
    {<<"S", "t", ".">>, <<"S", "t", "a", ".">>, <<" ">>, <<"C", "r", "u", "z">>, <<"I">>}

SaintNames(max) == {concat(ps) : ps \in UNION {[1..n -> SaintPieces] : n \in 0..max}}

InitSaints ==
    /\ pc = "start"
    /\ op = "none"
    /\ dout = NoResult
    /\ lrows = << >>
    /\ lout = NoResult
    /\ huc_file = TRUE
    /\ origin \in SaintNames(MaxSaintPieces)
    /\ clean = << >>
    /\ hrows = << >>
    /\ hout = NoResult
    /\ rows = << >>
    /\ out = NoResult
    /\ prows = << >>
    /\ pout = NoResult
    /\ table = << >>
    /\ levels = NoResult

NextSaints == PcodesGetCleanNames \/ DromicGetCleanNames

SpecSaints == InitSaints /\ [][NextSaints]_vars

\* The abbreviations and the words they stand for.
Abbreviation == <<<<"S", "t", ".">>, <<"S", "t", "a", ".">>>>
Written == <<<<"S", "a", "n">>, <<"S", "a", "n", "t", "a">>>>

\* Abbreviation k stands at position i of s as a whole token: the start of
\* the name or white space before it, the end or white space after it.
abbreviation_at(s, i, k) ==
    LET n == Len(Abbreviation[k])
    IN /\ i + n - 1 <= Len(s)
       /\ SubSeq(s, i, i + n - 1) = Abbreviation[k]
       /\ (i = 1 \/ s[i - 1] \in Whitespace)
       /\ (i + n - 1 = Len(s) \/ s[i + n] \in Whitespace)

\* s with the abbreviation at position i written out.
written_out(s, i, k) ==
    SubSeq(s, 1, i - 1) \o Written[k] \o SubSeq(s, i + Len(Abbreviation[k]), Len(s))

\* C25: a name with the token 'St.' or 'Sta.' normalizes, in pcodes and in
\* dromic_extractor, to the same key as the name with that token written
\* 'San' or 'Santa'.
C25_SaintAbbreviations ==
    NamesDone =>
        \A k \in 1..Len(Abbreviation) : \A i \in 1..Len(origin) :
            abbreviation_at(origin, i, k) =>
                normalizer(written_out(origin, i, k)) = clean

-----------------------------------------------------------------------------
(* dromic_extractor.py: add_dromic_pcodes on the table detect_admin_levels *)
(* returns, with the clean_name column of extract_dromic_table.            *)

DromicNames == {"NCR", "Pa", "Pb", "Brgy. Ma", "Lucena City"}

\* dromic_extractor.get_clean_names on the names of the dromic tables: case
\* folding, removal of "brgy." and "city", strip.
dromic_clean_name(name) ==
    CASE name = "NCR" -> "ncr"
      [] name = "Pa" -> "pa"
      [] name = "Pb" -> "pb"
      [] name = "Brgy. Ma" -> "ma"
      [] name = "Lucena City" -> "lucena"

\* Series.str[:-2] on an ADM2 code: the text without its last two
\* characters (NaN stays NaN).  The ADM2 codes of the gazetteer have two
\* characters, so what is left of them is the empty text.
str_without_last2(code) ==
    IF isna(code) THEN Null
    ELSE CASE code \in {pcode_df[i].ADM2_new : i \in 1..Len(pcode_df)} -> ""

\* drop_duplicates(): the first occurrence of every element, in order.
RECURSIVE drop_duplicates(_)
drop_duplicates(s) ==
    IF s = << >> THEN << >>
    ELSE LET front == drop_duplicates(SubSeq(s, 1, Len(s) - 1))
         IN IF \E j \in 1..Len(front) : front[j] = s[Len(s)] THEN front
            ELSE Append(front, s[Len(s)])

\* The right-hand column of pd.merge(left, right, how="left") for one left
\* row with key `key`: the values of the pairs <<value, key>> of `right`
\* with that key, in order; one missing value when there is none.
merged_values(key, right) ==
    LET hit(pair) == notna(pair[2]) /\ pair[2] = key
        hits == SelectSeq(right, hit)
    IN IF hits = << >> THEN <<Null>> ELSE [k \in 1..Len(hits) |-> hits[k][1]]

\* pcode_df[["ADM2_new", "adm2_clean"]].drop_duplicates()
pcode_level ==
    drop_duplicates([i \in 1..Len(pcode_df) |->
                        <<pcode_df[i].ADM2_new, pcode_df[i].adm2_clean>>])

\* A flag column of the labeled table is True on the row (the adm2 and adm3
\* columns are NaN on the rows the counter did not scan).
flag_set(r, f) ==
    IF f \in {"adm2", "adm3"} THEN ~r.adm0 /\ ~r.adm1 /\ ~r.huc /\ r[f] ELSE r[f]

\* df.copy() with ADM0_new and the columns the function adds later.
dromic_row(r) ==
    [index |-> r.index, name |-> r.name, clean_name |-> dromic_clean_name(r.name),
     adm0 |-> r.adm0, adm1 |-> r.adm1, huc |-> r.huc, adm2 |-> r.adm2, adm3 |-> r.adm3,
     ADM0_new |-> "PH", ADM1_new |-> Null, ADM2_new |-> Null, ADM3_new |-> Null]

\* Admin 2 (lines 216-219): the adm2 rows joined to pcode_level on the clean
\* name, then joined back on "index": one row per matching code.
adm2_merge(df) ==
    concat([i \in 1..Len(df) |->
        IF flag_set(df[i], "adm2")
        THEN LET codes == merged_values(df[i].clean_name, pcode_level)
             IN [k \in 1..Len(codes) |-> [df[i] EXCEPT !.ADM2_new = codes[k]]]
        ELSE <<df[i]>>])

\* Admin 1 (line 222)
adm1_from_adm2(df) ==
    [i \in 1..Len(df) |-> [df[i] EXCEPT !.ADM1_new = str_without_last2(df[i].ADM2_new)]]

\* The loop of lines 225-230 from row `index` (0-based) on: an adm1 row
\* reads the row at index + 1 (IndexError past the end), an adm3 or huc row
\* the row at index - 1 (position -1 is the last row).
RECURSIVE fill_codes(_, _)
fill_codes(df, index) ==
    IF index >= Len(df) THEN [status |-> "ok", table |-> df]
    ELSE LET at == index + 1
             row == df[at]
         IN IF row.adm1 /\ index + 1 >= Len(df)
            THEN [status |-> "IndexError", table |-> << >>]
            ELSE LET df1 == IF row.adm1
                            THEN [df EXCEPT ![at].ADM1_new = df[at + 1].ADM1_new]
                            ELSE df
                     prev == IF index = 0 THEN Len(df) ELSE at - 1
                     df2 == IF flag_set(row, "adm3") \/ row.huc
                            THEN [df1 EXCEPT ![at].ADM2_new = df1[prev].ADM2_new,
                                             ![at].ADM1_new = df1[prev].ADM1_new]
                            ELSE df1
                 IN fill_codes(df2, index + 1)

\* pcode_sel of line 235-236 for one ADM2 code.
pcode_sel(admin2_code) ==
    drop_duplicates(
        LET scope(g) == notna(g[3]) /\ g[3] = admin2_code
            in_scope == SelectSeq([i \in 1..Len(pcode_df) |->
                                      <<pcode_df[i].ADM3_new, pcode_df[i].adm3_clean,
                                        pcode_df[i].ADM2_new>>], scope)
        IN [k \in 1..Len(in_scope) |-> <<in_scope[k][1], in_scope[k][2]>>])

\* Admin 3 (lines 233-241): the rows of admin3_df with their ADM3 codes, then
\* the left join of the table to them on "index".
adm3_merge(df) ==
    LET in_admin3(d) == flag_set(d, "adm3") /\ notna(d.ADM2_new)
        codes_of(d) == merged_values(d.clean_name, pcode_sel(d.ADM2_new))
    IN concat([i \in 1..Len(df) |->
           LET right == concat([j \in 1..Len(df) |->
                            IF df[j].index = df[i].index /\ in_admin3(df[j])
                            THEN codes_of(df[j]) ELSE << >>])
           IN IF right = << >> THEN <<df[i]>>
              ELSE [k \in 1..Len(right) |-> [df[i] EXCEPT !.ADM3_new = right[k]]]])

\* add_dromic_pcodes on the labeled table: the IndexError of line 227, the
\* KeyError of line 241 when admin3_df is the empty frame (no row has an ADM2
\* code), otherwise the joined table.
add_dromic_pcodes(labeled) ==
    LET df == adm1_from_adm2(adm2_merge([i \in 1..Len(labeled) |-> dromic_row(labeled[i])]))
        filled == fill_codes(df, 0)
    IN IF filled.status # "ok" THEN filled
       ELSE IF \A i \in 1..Len(filled.table) : isna(filled.table[i].ADM2_new)
       THEN [status |-> "KeyError", table |-> << >>]
       ELSE [status |-> "ok", table |-> adm3_merge(filled.table)]

-----------------------------------------------------------------------------
(* The specification of the DROMIC chain of extract_dromic_table: a table  *)
(* of at most MaxDromicRows rows is labeled by detect_admin_levels and     *)
(* coded by add_dromic_pcodes.                                             *)

MaxDromicRows == 4

DromicValues == {1, 2}

DromicTables(max) ==
    UNION {[1..n -> {[name |-> nm, c1 |-> v, c2 |-> v] :
                        nm \in DromicNames, v \in DromicValues}] :
           n \in 1..max}

InitDromic ==
    /\ pc = "start"
    /\ op = "none"
    /\ dout = NoResult
    /\ lrows = << >>
    /\ lout = NoResult
    /\ huc_file \in BOOLEAN
    /\ table \in DromicTables(MaxDromicRows)
    /\ levels = NoResult
    /\ hrows = << >>
    /\ hout = NoResult
    /\ origin = << >>
    /\ clean = << >>
    /\ rows = << >>
    /\ out = NoResult
    /\ prows = << >>
    /\ pout = NoResult

\* extract_dromic_table, lines 113-119: the levels, then the codes.
AddDromicPcodes ==
    /\ pc = "start"
    /\ levels' = detect_admin_levels(table, huc_file)
    /\ dout' = IF levels'.status = "ok" THEN add_dromic_pcodes(levels'.table)
               ELSE [status |-> levels'.status, table |-> << >>]
    /\ op' = "add_dromic_pcodes"
    /\ pc' = "done"
    /\ UNCHANGED <<rows, out, prows, pout, table, origin, clean, hrows, hout, lrows, lout, huc_file>>

NextDromic == AddDromicPcodes

SpecDromic == InitDromic /\ [][NextDromic]_vars

-----------------------------------------------------------------------------
(* Claims about add_dromic_pcodes.                                         *)

\* add_dromic_pcodes was called on the labeled table.
DromicCalled == pc = "done" /\ op = "add_dromic_pcodes" /\ levels.status = "ok"

\* C28: add_dromic_pcodes returns exactly one row per input row, in input
\* order: the joins against the gazetteer add, repeat and drop no row, also
\* when a normalized name has several codes in the gazetteer scope.
C28_OneRowPerInputRow ==
    DromicCalled =>
        /\ dout.status = "ok"
        /\ Len(dout.table) = Len(levels.table)
        /\ \A i \in 1..Len(dout.table) :
               /\ dout.table[i].index = levels.table[i].index
               /\ dout.table[i].name = levels.table[i].name

\* The nearest adm2 row above row k of the coded table t; 0 if none.
adm2_above(t, k) == Max({0} \cup {j \in 1..(k - 1) : flag_set(t[j], "adm2")})

\* C29: the code propagation of add_dromic_pcodes reads real neighbouring
\* rows only and gives every group member the code of its group head: no
\* read past the last row for an adm1 row, no read of the last row for an
\* adm3 or HUC row that is the first row, and every adm3 row ends with the
\* ADM2_new of the nearest adm2 row above it.
C29_CodePropagation ==
    DromicCalled =>
        /\ dout.status # "IndexError"
        /\ dout.status = "ok" =>
               LET t == dout.table
               IN /\ (flag_set(t[1], "adm3") \/ t[1].huc) =>
                         isna(t[1].ADM2_new) /\ isna(t[1].ADM1_new)
                  /\ \A k \in 1..Len(t) :
                         flag_set(t[k], "adm3") =>
                             /\ adm2_above(t, k) > 0
                             /\ t[k].ADM2_new = t[adm2_above(t, k)].ADM2_new

-----------------------------------------------------------------------------
(* transformations.py: transform_communication_lines and                   *)
(* transform_damage_to_agriculture.  A row of the input carries Location,  *)
(* Count, Data (Status_of_Communication of the communication table,        *)
(* Classification of the agriculture table) and Type (Telecom_Company,     *)
(* Type).  The cells of the text columns are strings or missing; the Count *)
(* of a header row is a number.  The other columns of the two tables       *)
(* (dates, times, coverage, Remarks, areas, costs) are not carried.        *)

\* str.lower()
lower(s) ==
    CASE s = "No breakdown" -> "no breakdown"
      [] s = "REGION IV-A" -> "region iv-a"
      [] s = "NCR" -> "ncr"
      [] s = "CAVITE" -> "cavite"
      [] s = "LUCENA CITY" -> "lucena city"
      [] s = "Tagaytay City" -> "tagaytay city"
      [] s = "Brgy. Sungay" -> "brgy. sungay"
      [] s = "None" -> "none"
      [] OTHER -> s

\* f"{province_upper} CITY"
append_city(province_upper) ==
    CASE province_upper = "CAVITE" -> "CAVITE CITY"
      [] province_upper = "LUCENA CITY" -> "LUCENA CITY CITY"
      [] province_upper = "TAGAYTAY CITY" -> "TAGAYTAY CITY CITY"
      [] province_upper = "NO BREAKDOWN" -> "NO BREAKDOWN CITY"
      [] province_upper = "REGION IV-A" -> "REGION IV-A CITY"
      [] province_upper = "NCR" -> "NCR CITY"
      [] province_upper = "BRGY. SUNGAY" -> "BRGY. SUNGAY CITY"
      [] OTHER -> "NONE CITY"

line_row(i, r) ==
    [idx |-> i, Location |-> r.Location, Count |-> r.Count, Data |-> r.Data,
     Type |-> r.Type, Filled |-> Null, Region |-> Null, Province |-> Null,
     Municipality |-> Null, Barangay |-> Null, Level |-> Null]

\* header_mask = df['Count'].notna()
header_mask(df) == {i \in 1..Len(df) : df[i].Count # NaN}

\* headers_df = df[header_mask]: the frame handed to
\* extract_location_hierarchy with subtotal_col='Count'.  It has no
\* Affected_Persons column, so STEP 5d is skipped, which is what the step
\* does on a column of missing values.
headers_df(df) ==
    LET h == FilterSeq(df, header_mask(df))
    IN [j \in 1..Len(h) |-> [Location |-> h[j].Location, Sub |-> h[j].Count, AF |-> NaN, AP |-> NaN]]

\* location_map.get(x, {}): the dict is filled in row order under the key
\* column, so the last row of headers_processed with the key x is the one
\* the dict holds; an absent key gives the empty dict.
EmptyEntry == [Region |-> Null, Province |-> Null, Municipality |-> Null]

location_map_get(headers_processed, key, x) ==
    LET hits == {i \in 1..Len(headers_processed) :
                    notna(headers_processed[i][key]) /\ headers_processed[i][key] = x}
    IN IF hits = {} THEN EmptyEntry
       ELSE [Region |-> headers_processed[Max(hits)].Region,
             Province |-> headers_processed[Max(hits)].Province,
             Municipality |-> headers_processed[Max(hits)].Municipality]

\* The Location of the header rows, forward-filled to all rows
\* (Municipality_Filled, Location_Filled).
fill_header_location(df) ==
    LET filled == ffill([i \in 1..Len(df) |->
                            IF i \in header_mask(df) THEN df[i].Location ELSE Null])
    IN [i \in 1..Len(df) |-> [df[i] EXCEPT !.Filled = filled[i]]]

\* pd.notna(x) and str(x).strip() not in ['', 'nan', 'None']
is_text(x) == notna(x) /\ strip(str(x)) \notin {"", "nan", "None"}

\* The Barangay of the detail rows: the rows outside header_mask among
\* data_rows, the positions of the rows with data.
assign_barangay(df, data_rows) ==
    [i \in 1..Len(df) |->
        IF i \notin header_mask(df) /\ i \in data_rows /\ is_text(df[i].Location)
        THEN [df[i] EXCEPT !.Barangay = df[i].Location]
        ELSE df[i]]

\* df[mask]: the rows with data.
keep_rows(df, data_rows) == FilterSeq(df, data_rows)

\* df['Status_of_Communication'].notna()
has_status(df) == {i \in 1..Len(df) : notna(df[i].Data)}

\* transform_communication_lines, Step 5: Region and Province by the filled
\* name, Municipality the filled name itself.
cl_step5_map(df, headers_processed) ==
    [i \in 1..Len(df) |->
        LET entry == location_map_get(headers_processed, "Municipality", df[i].Filled)
        IN [df[i] EXCEPT !.Region = entry.Region, !.Province = entry.Province,
                         !.Municipality = df[i].Filled]]

\* Step 8
cl_step8_level(df) ==
    [i \in 1..Len(df) |->
        [df[i] EXCEPT !.Level =
            IF is_text(df[i].Barangay) THEN "Barangay" ELSE "Municipality"]]

\* Step 9: a "No breakdown" row whose Province is a HUC of its Region.
cl_is_huc(province, region) ==
    LET province_upper == upper(strip(str_none(province)))
        region_upper == upper(strip(str_none(region)))
    IN \/ is_huc_of(province_upper, region_upper)
       \/ is_huc_of(append_city(province_upper), region_upper)

cl_step9_no_breakdown(df) ==
    [i \in 1..Len(df) |->
        IF /\ lower(strip(str(df[i].Municipality))) = "no breakdown"
           /\ notna(df[i].Province)
           /\ notna(df[i].Region)
           /\ cl_is_huc(df[i].Province, df[i].Region)
        THEN IF isna(df[i].Barangay) \/ strip(str_none(df[i].Barangay)) \in {"", "None", "nan"}
             THEN [df[i] EXCEPT !.Municipality = df[i].Province,
                                !.Barangay = "No breakdown", !.Level = "Barangay"]
             ELSE [df[i] EXCEPT !.Municipality = df[i].Province]
        ELSE df[i]]

\* Step 10
cl_step10_level(df) ==
    [i \in 1..Len(df) |->
        IF strip(str_none(df[i].Barangay)) \in {"No breakdown", "All Barangays"}
        THEN [df[i] EXCEPT !.Level = "Municipality"]
        ELSE df[i]]

\* Step 11, the cleaning of one cell after astype(str): '\r' to a blank
\* (no text of the tables holds one), strip, and replace('nan', None), which
\* makes the text 'nan' a missing cell again.
clean_text(printed) ==
    LET text == strip(printed)
    IN IF text = "nan" THEN Null ELSE text

\* str.replace(' ', '')
remove_blanks(x) ==
    IF isna(x) THEN Null
    ELSE CASE x = "Not Restored" -> "NotRestored"
           [] x = "No breakdown" -> "Nobreakdown"
           [] x = "Tagaytay City" -> "TagaytayCity"
           [] x = "Lucena City" -> "LucenaCity"
           [] x = "LUCENA CITY" -> "LUCENACITY"
           [] x = "REGION IV-A" -> "REGIONIV-A"
           [] x = "Brgy. Sungay" -> "Brgy.Sungay"
           [] x = " Down " -> "Down"
           [] x = " " -> ""
           [] OTHER -> x

\* Step 11: Telecom_Company, Status_of_Communication and Barangay are
\* cleaned, then the blanks are taken out of Status_of_Communication.  A
\* missing Telecom_Company is a NaN of the input: it prints as 'nan' and is
\* left missing.  A missing Barangay is the None of Step 6: it prints as
\* 'None' and stays that text.
cl_step11_clean(df) ==
    [i \in 1..Len(df) |->
        [df[i] EXCEPT !.Type = clean_text(str(df[i].Type)),
                      !.Data = remove_blanks(clean_text(str(df[i].Data))),
                      !.Barangay = clean_text(str_none(df[i].Barangay))]]

\* The columns of the result (idx is the position of the row in the input).
line_columns(df) ==
    [i \in 1..Len(df) |->
        [idx |-> df[i].idx, Region |-> df[i].Region, Province |-> df[i].Province,
         Municipality |-> df[i].Municipality, Barangay |-> df[i].Barangay,
         Level |-> df[i].Level, Data |-> df[i].Data, Type |-> df[i].Type]]

\* The results of transform_communication_lines on the table t.
transform_communication_lines(t) ==
    LET df == [i \in 1..Len(t) |-> line_row(i, t[i])]
    IN {IF res.status = "error" THEN res
        ELSE [status |-> "ok",
              table |-> line_columns(cl_step11_clean(cl_step10_level(
                  cl_step9_no_breakdown(cl_step8_level(keep_rows(
                      assign_barangay(cl_step5_map(fill_header_location(df), res.table),
                                      has_status(df)),
                      has_status(df)))))))] :
        res \in hierarchy_results(headers_df(df), column(df, "Location"))}

\* df['Classification'].notna() | df['Type'].notna()
has_classification_or_type(df) ==
    {i \in 1..Len(df) : notna(df[i].Data) \/ notna(df[i].Type)}

\* transform_damage_to_agriculture, Step 6: Region, Province and
\* Municipality by the filled name.
ag_step6_map(df, headers_processed) ==
    [i \in 1..Len(df) |->
        LET entry == location_map_get(headers_processed, "Location", df[i].Filled)
        IN [df[i] EXCEPT !.Region = entry.Region, !.Province = entry.Province,
                         !.Municipality = entry.Municipality]]

\* Step 9: assign_level
assign_level(r) ==
    LET muni == IF notna(r.Municipality) THEN strip(str(r.Municipality)) ELSE ""
        barangay == IF notna(r.Barangay) THEN strip(str_none(r.Barangay)) ELSE ""
    IN IF lower(muni) = "no breakdown" THEN "Province"
       ELSE IF barangay \notin {"", "None", "nan"}
            THEN IF barangay \in {"No breakdown", "All Barangays"}
                 THEN "Municipality" ELSE "Barangay"
       ELSE IF muni \notin {"", "None", "nan"} THEN "Municipality"
       ELSE "Province"

ag_step9_level(df) ==
    [i \in 1..Len(df) |-> [df[i] EXCEPT !.Level = assign_level(df[i])]]

\* The results of transform_damage_to_agriculture on the table t.
transform_damage_to_agriculture(t) ==
    LET df == [i \in 1..Len(t) |-> line_row(i, t[i])]
    IN {IF res.status = "error" THEN res
        ELSE [status |-> "ok",
              table |-> line_columns(ag_step9_level(keep_rows(
                  assign_barangay(ag_step6_map(fill_header_location(df), res.table),
                                  has_classification_or_type(df)),
                  has_classification_or_type(df))))] :
        res \in hierarchy_results(headers_df(df), column(df, "Location"))}

-----------------------------------------------------------------------------
(* The lines specification: a table of at most MaxLineRows rows drawn from *)
(* header rows (a Count and no data: two Regions, a Province, a HUC, a     *)
(* Municipality, a "No breakdown" row) and detail rows (no Count: a        *)
(* status or classification with or without a location, a Type only),     *)
(* then one of the two functions.                                          *)

MaxLineRows == 5

LineRows ==
    {[Location |-> "REGION IV-A", Count |-> 1, Data |-> Null, Type |-> Null],
     [Location |-> "NCR", Count |-> 1, Data |-> Null, Type |-> Null],
     [Location |-> "CAVITE", Count |-> 1, Data |-> Null, Type |-> Null],
     [Location |-> "LUCENA CITY", Count |-> 1, Data |-> Null, Type |-> Null],
     [Location |-> "Tagaytay City", Count |-> 1, Data |-> Null, Type |-> Null],
     [Location |-> "No breakdown", Count |-> 1, Data |-> Null, Type |-> Null],
     [Location |-> Null, Count |-> NaN, Data |-> "Not Restored", Type |-> Null],
     [Location |-> "Brgy. Sungay", Count |-> NaN, Data |-> " Down ", Type |-> "Globe"],
     [Location |-> "Brgy. Sungay", Count |-> NaN, Data |-> Null, Type |-> "Rice"]}

LineTables(max) == UNION {[1..n -> LineRows] : n \in 1..max}

InitLines ==
    /\ pc = "start"
    /\ op = "none"
    /\ dout = NoResult
    /\ lrows \in LineTables(MaxLineRows)
    /\ lout = NoResult
    /\ huc_file = TRUE
    /\ hrows = << >>
    /\ hout = NoResult
    /\ table = << >>
    /\ levels = NoResult
    /\ origin = << >>
    /\ clean = << >>
    /\ rows = << >>
    /\ out = NoResult
    /\ prows = << >>
    /\ pout = NoResult

TransformCommunicationLines ==
    /\ pc = "start"
    /\ lout' \in transform_communication_lines(lrows)
    /\ op' = "transform_communication_lines"
    /\ pc' = "done"
    /\ UNCHANGED <<rows, out, prows, pout, table, levels, origin, clean, hrows, hout, dout, lrows, huc_file>>

TransformDamageToAgriculture ==
    /\ pc = "start"
    /\ lout' \in transform_damage_to_agriculture(lrows)
    /\ op' = "transform_damage_to_agriculture"
    /\ pc' = "done"
    /\ UNCHANGED <<rows, out, prows, pout, table, levels, origin, clean, hrows, hout, dout, lrows, huc_file>>

NextLines == TransformCommunicationLines \/ TransformDamageToAgriculture

SpecLines == InitLines /\ [][NextLines]_vars

-----------------------------------------------------------------------------
(* Claims about transform_communication_lines and                          *)
(* transform_damage_to_agriculture.                                        *)

LinesDone ==
    /\ pc = "done"
    /\ op \in {"transform_communication_lines", "transform_damage_to_agriculture"}
    /\ lout.status = "ok"

\* The nearest header row at or above row k of the input (0: none).
header_above(t, k) ==
    LET above == {j \in 1..k : t[j].Count # NaN}
    IN IF above = {} THEN 0 ELSE Max(above)

\* The rows extract_location_hierarchy keeps of the header at position h of
\* the input, with the Region and Province it gives them.
header_entries(t, h) ==
    LET df == [i \in 1..Len(t) |-> line_row(i, t[i])]
        no == Cardinality({j \in 1..h : t[j].Count # NaN})
    IN UNION {{res.table[i] : i \in {j \in 1..Len(res.table) : res.table[j].idx = no}} :
                 res \in {x \in hierarchy_results(headers_df(df), column(df, "Location")) :
                             x.status = "ok"}}

\* C30: in the results of transform_communication_lines and
\* transform_damage_to_agriculture, every row under a header row that the
\* hierarchy keeps carries the Region and the Province of that header row,
\* the nearest header row above it, also when another header row of the
\* table has the same location name.
C30_NearestHeaderRegionProvince ==
    LinesDone =>
        \A i \in 1..Len(lout.table) :
            LET r == lout.table[i]
                h == header_above(lrows, r.idx)
            IN h > 0 =>
                   \A e \in header_entries(lrows, h) :
                       r.Region = e.Region /\ r.Province = e.Province

====
